---- MODULE Spec2Model ----
(***************************************************************************)
(* Model of the gateway reader of home_assistant_enphase_gateway:          *)
(* the endpoint cache (gateway_reader/endpoint.py), the gateway model      *)
(* hierarchy and its required-endpoint computation                         *)
(* (gateway_reader/gateway.py), the path extractor                         *)
(* (gateway_reader/descriptors.py), the request functions                  *)
(* (gateway_reader/http.py, http.py), the token authentication             *)
(* (gateway_reader/auth.py), the endpoint fetch of the readers             *)
(* (gateway_reader/gateway_reader.py, gateway_reader_new.py), the gateway  *)
(* info (gateway_reader/gateway_info.py) and the pattern extractor         *)
(* (gateway_reader/descriptors.py).                                        *)
(*                                                                         *)
(* Python values are modelled as follows.  An Optional value is a sequence *)
(* of length 0 (None) or 1 (the value).  A dict is a function, a list a    *)
(* sequence.  A value returned by an attribute is a tagged record, see     *)
(* PyNone, PyBool, PyNum, PyStr, PyList, PyDict.                           *)
(***************************************************************************)
EXTENDS Integers, Sequences, FiniteSets, TLC

VARIABLES
    now,                      \* time.time(), in whole seconds
    cache,                    \* GatewayEndpoint.cache, per endpoint object
    last_fetch,               \* GatewayEndpoint.last_fetch, per endpoint object
    passed,                   \* history: the timestamp of the latest success() call, per endpoint object
    gateway,                  \* the class of the gateway instance in use
    data,                     \* BaseGateway.data: path -> Optional payload
    initial_update_finished,  \* BaseGateway.initial_update_finished
    _required_endpoints,      \* BaseGateway._required_endpoints: None or a dict path -> endpoint object
    _probes_finished,         \* BaseGateway._probes_finished
    production_meter,         \* EnvoySMetered.production_meter and its copy in EnvoySMeteredCtDisabled
    net_consumption_meter,    \* likewise
    total_consumption_meter,  \* likewise
    auth,                     \* the EnphaseTokenAuth instance: None before construction, else its fields
    info,                     \* the GatewayInfo instance of the reader: its fields
    class_properties,         \* per gateway class, the names __new__ has bound to a property object in its __dict__
    other,                    \* the other gateway instance of the process: None, or the instance and its registry
    returned,                 \* the value the latest call returned, None once consumed
    lastOp                    \* history: the operation that produced this state

endpointVars == <<cache, last_fetch, passed>>

meterVars == <<production_meter, net_consumption_meter, total_consumption_meter>>

gatewayVars ==
    <<gateway, data, initial_update_finished, _required_endpoints,
      _probes_finished, meterVars>>

\* The state of the process beside the gateway in use: the classes and the
\* other gateway instance.
processVars == <<class_properties, other>>

\* The state around the gateway: authentication, the gateway info and the
\* process.
serviceVars == <<auth, info, processVars>>

vars == <<now, endpointVars, gatewayVars, serviceVars, returned, lastOp>>

\* ------------------------------------------------------------------ bounds

\* The clock runs from 1 (the epoch itself is never the current time) to MaxTime.
MaxTime == 4

\* Declared cache values range over 0..MaxCache.
MaxCache == 2

\* ------------------------------------------------------------------ Optional

None == <<>>

Some(x) == <<x>>

IsNone(o) == Len(o) = 0

Val(o) == o[1]

\* Python truthiness of an Optional[float]: None and 0 are falsy.
Truthy(o) == ~IsNone(o) /\ Val(o) # 0

\* ------------------------------------------------------------------ endpoints

\* GatewayEndpoint.__init__: last_fetch = None.
EndpointInit(declared) ==
    /\ cache = declared
    /\ last_fetch = [e \in DOMAIN declared |-> None]

update_required_ignores_cache(e) ==
    IF ~Truthy(last_fetch[e]) THEN TRUE
    ELSE Val(last_fetch[e]) <= now

\* GatewayEndpoint.update_required
update_required(e) ==
    IF ~Truthy(last_fetch[e]) THEN TRUE
    ELSE IF Val(last_fetch[e]) + cache[e] <= now THEN TRUE
    ELSE FALSE

\* GatewayEndpoint.update_required, read within an operation that has
\* changed last_fetch and cache to fetches and caches.
update_required_within(fetches, caches, e) ==
    IF ~Truthy(fetches[e]) THEN TRUE
    ELSE IF Val(fetches[e]) + caches[e] <= now THEN TRUE
    ELSE FALSE

\* The timestamp success() stores: `if not timestamp: timestamp = time.time()`.
StoredTimestamp(timestamp) ==
    IF ~Truthy(timestamp) THEN now ELSE Val(timestamp)

\* GatewayEndpoint.success(timestamp) on the endpoint objects' last_fetch.
success(fetches, e, timestamp) ==
    [fetches EXCEPT ![e] = Some(StoredTimestamp(timestamp))]

\* A caller marks endpoint e fetched.
Success(e, timestamp) ==
    /\ last_fetch' = success(last_fetch, e, timestamp)
    /\ passed' = [passed EXCEPT ![e] =
                    IF IsNone(timestamp) THEN Some(now) ELSE timestamp]
    /\ lastOp' = [op |-> "success", e |-> e, timestamp |-> timestamp]
    /\ returned' = None
    /\ UNCHANGED <<now, cache, gatewayVars, serviceVars>>

\* The clock advances.
Tick ==
    /\ now < MaxTime
    /\ now' = now + 1
    /\ lastOp' = [op |-> "tick"]
    /\ returned' = None
    /\ UNCHANGED <<endpointVars, gatewayVars, serviceVars>>

Timestamps == {None} \cup {Some(t) : t \in 0..MaxTime}

\* ------------------------------------------------------------------ registry

\* Attributes one class body flags with @gateway_property(required_endpoint=...),
\* in the order of the class body.  Each decoration creates its own
\* GatewayEndpoint object; an object is named <<class, attribute>>.
ClassMethods(cls) ==
    CASE cls = "Envoy" -> <<"inverters_production">>
      [] cls = "EnvoyS" -> <<"encharge_inventory", "encharge_power", "acb_storage">>
      [] cls = "EnvoySMetered" ->
            <<"production", "daily_production", "seven_days_production",
              "lifetime_production", "consumption", "daily_consumption",
              "seven_days_consumption", "lifetime_consumption">>
      [] cls = "EnvoySMeteredCtDisabled" ->
            <<"production", "daily_production", "seven_days_production",
              "lifetime_production">>
      [] OTHER -> <<>>

\* Methods one class body flags with @gateway_probe(required_endpoint=...).
ClassProbes(cls) ==
    CASE cls = "EnvoySMetered" -> <<"ivp_meters_probe">>
      [] OTHER -> <<>>

\* Attributes one class body binds to a descriptor, in the order of the class
\* body: the dict BaseDescriptor.__set_name__ builds as
\* <class>_gateway_properties.
ClassDescriptors(cls) ==
    CASE cls = "Envoy" ->
            <<"production", "daily_production", "seven_days_production",
              "lifetime_production">>
      [] cls = "EnvoyS" -> <<"ensemble_secctrl", "ensemble_power">>
      [] cls = "EnvoySMeteredCtDisabled" ->
            <<"consumption", "daily_consumption", "seven_days_consumption",
              "lifetime_consumption">>
      [] OTHER -> <<>>

\* The endpoint object a class body creates for one attribute or probe.
EndpointOf(cls, attr) == <<cls, attr>>

\* The first constructor argument of each endpoint object (required_endpoint).
EndpointPath(e) ==
    LET cls == e[1]
        attr == e[2]
    IN CASE cls = "Envoy" ->
              IF attr = "inverters_production" THEN "api/v1/production/inverters"
              ELSE "api/v1/production"
         [] cls = "EnvoyS" ->
              (CASE attr = "ensemble_secctrl" -> "ivp/ensemble/secctrl"
                 [] attr = "ensemble_power" -> "ivp/ensemble/power"
                 [] attr = "encharge_inventory" -> "ivp/ensemble/inventory"
                 [] attr = "encharge_power" -> "ivp/ensemble/power"
                 [] attr = "acb_storage" -> "production.json")
         [] cls = "EnvoySMetered" ->
              (CASE attr = "ivp_meters_probe" -> "ivp/meters"
                 [] attr \in {"production", "lifetime_production", "consumption",
                              "lifetime_consumption"} -> "ivp/meters/readings"
                 [] OTHER -> "production.json")
         [] cls = "EnvoySMeteredCtDisabled" -> "production.json"

\* cls.mro() without object.
Mro(cls) ==
    CASE cls = "Envoy" -> <<"Envoy", "BaseGateway">>
      [] cls = "EnvoyS" -> <<"EnvoyS", "Envoy", "BaseGateway">>
      [] cls = "EnvoySMetered" -> <<"EnvoySMetered", "EnvoyS", "Envoy", "BaseGateway">>
      [] cls = "EnvoySMeteredCtDisabled" ->
            <<"EnvoySMeteredCtDisabled", "EnvoyS", "Envoy", "BaseGateway">>
      [] OTHER -> <<"BaseGateway">>

Classes == {"Envoy", "EnvoyS", "EnvoySMetered", "EnvoySMeteredCtDisabled"}

Range(s) == {s[i] : i \in DOMAIN s}

\* Every endpoint object the class bodies create.
AllEndpoints ==
    UNION {{EndpointOf(cls, a) :
              a \in Range(ClassMethods(cls)) \cup Range(ClassProbes(cls))
                    \cup Range(ClassDescriptors(cls))} : cls \in Classes}

\* An insertion-ordered dict is a sequence of [key, val] records.
Keys(d) == {d[i].key : i \in DOMAIN d}

Get(d, k) == LET i == CHOOSE i \in DOMAIN d : d[i].key = k IN d[i].val

\* dict.setdefault(k, v), and the guarded `if k not in d: d[k] = v`.
SetDefault(d, k, v) ==
    IF k \in Keys(d) THEN d ELSE Append(d, [key |-> k, val |-> v])

RECURSIVE AddAll(_, _, _, _)
\* Register attrs[i..] of class cls, keeping earlier registrations.
AddAll(d, cls, attrs, i) ==
    IF i > Len(attrs) THEN d
    ELSE AddAll(SetDefault(d, attrs[i], EndpointOf(cls, attrs[i])), cls, attrs, i + 1)

RECURSIVE WalkProperties(_, _, _)
\* BaseGateway.__new__, the properties: walk [cls] + cls.mro(); in one class
\* __dict__ the flagged methods come in body order and the descriptor dict,
\* which __set_name__ adds after the body has run, comes last.
WalkProperties(d, classes, i) ==
    IF i > Len(classes) THEN d
    ELSE LET c == classes[i]
             withMethods == AddAll(d, c, ClassMethods(c), 1)
             withDescriptors == AddAll(withMethods, c, ClassDescriptors(c), 1)
         IN WalkProperties(withDescriptors, classes, i + 1)

RECURSIVE WalkProbes(_, _, _)
\* BaseGateway.__new__, the probes.
WalkProbes(d, classes, i) ==
    IF i > Len(classes) THEN d
    ELSE WalkProbes(AddAll(d, classes[i], ClassProbes(classes[i]), 1), classes, i + 1)

\* The classes before any instance was constructed: every flagged method
\* is still the function of the class body.
NoClassProperties == [c \in Classes |-> {}]

RECURSIVE NewMethods(_, _, _, _, _)
\* BaseGateway.__new__, the flagged methods of the class c of the walk, for
\* an instance of cls.  A name that an earlier __new__ bound to a property
\* object in c.__dict__ carries no flag and is passed over; a flagged
\* method whose name is not registered yet is registered and bound to a
\* property object in cls.__dict__.
NewMethods(st, cls, c, attrs, i) ==
    IF i > Len(attrs) THEN st
    ELSE IF c \in Classes /\ attrs[i] \in st.class_properties[c]
         THEN NewMethods(st, cls, c, attrs, i + 1)
         ELSE IF attrs[i] \in Keys(st.properties)
              THEN NewMethods(st, cls, c, attrs, i + 1)
              ELSE NewMethods(
                      [properties |-> Append(st.properties,
                                             [key |-> attrs[i],
                                              val |-> EndpointOf(c, attrs[i])]),
                       class_properties |->
                           [st.class_properties EXCEPT ![cls] = @ \cup {attrs[i]}]],
                      cls, c, attrs, i + 1)

RECURSIVE WalkNew(_, _, _, _)
\* BaseGateway.__new__, the walk over [cls] + cls.mro().
WalkNew(st, cls, classes, i) ==
    IF i > Len(classes) THEN st
    ELSE LET c == classes[i]
             withMethods == NewMethods(st, cls, c, ClassMethods(c), 1)
         IN WalkNew([withMethods EXCEPT
                        !.properties = AddAll(@, c, ClassDescriptors(c), 1)],
                    cls, classes, i + 1)

\* BaseGateway.__new__ for an instance of cls, in a process whose classes
\* are in the state class_dicts: the instance's _gateway_properties and
\* _gateway_probes, and the classes afterwards.
BaseGateway_new(cls, class_dicts) ==
    LET walked == WalkNew([properties |-> <<>>, class_properties |-> class_dicts],
                          cls, <<cls>> \o Mro(cls), 1)
    IN [properties |-> walked.properties,
        probes |-> WalkProbes(<<>>, <<cls>> \o Mro(cls), 1),
        class_properties |-> walked.class_properties]

\* instance._gateway_properties of the first instance of cls, constructed
\* before any instance of a class cls inherits from.
GatewayProperties(cls) == WalkProperties(<<>>, <<cls>> \o Mro(cls), 1)

\* instance._gateway_probes of an instance of cls.
GatewayProbes(cls) == WalkProbes(<<>>, <<cls>> \o Mro(cls), 1)

\* ------------------------------------------------------------------ values

\* The values an attribute returns, tagged with their Python type.
PyNone == [t |-> "none"]

PyBool(b) == [t |-> "bool", v |-> b]

PyNum(n) == [t |-> "num", v |-> n]

PyStr(text) == [t |-> "str", v |-> text]

PyList(s) == [t |-> "list", v |-> s]

PyDict(f) == [t |-> "dict", v |-> f]

\* bool(value)
PyTruthy(val) ==
    CASE val.t = "none" -> FALSE
      [] val.t = "bool" -> val.v
      [] val.t = "num" -> val.v # 0
      [] val.t = "str" -> val.v # ""
      [] val.t = "list" -> Len(val.v) > 0
      [] val.t = "dict" -> DOMAIN val.v # {}

\* value in (None, [], {})
IsEmptyValue(val) ==
    CASE val.t = "none" -> TRUE
      [] val.t = "bool" -> FALSE
      [] val.t = "num" -> FALSE
      [] val.t = "str" -> FALSE
      [] val.t = "list" -> Len(val.v) = 0
      [] val.t = "dict" -> DOMAIN val.v = {}

\* ------------------------------------------------------------------ payloads

Paths ==
    {"api/v1/production/inverters", "ivp/ensemble/secctrl", "ivp/ensemble/power",
     "ivp/ensemble/inventory", "production.json", "ivp/meters",
     "ivp/meters/readings"}

MeterTypes == <<"production", "net-consumption", "total-consumption">>

\* ivp/meters: one meter per measurement type, meter i has eid i; the meters
\* of the types in `enabled` are enabled.
MetersPayload(enabled) ==
    [i \in 1..3 |->
        [eid |-> i,
         state |-> IF MeterTypes[i] \in enabled THEN "enabled" ELSE "disabled",
         measurementType |-> MeterTypes[i]]]

\* ivp/meters/readings: one reading per meter.
ReadingsPayload ==
    <<[eid |-> 1, activePower |-> 5, actEnergyDlvd |-> 9, actEnergyRcvd |-> 0],
      [eid |-> 2, activePower |-> 2, actEnergyDlvd |-> 7, actEnergyRcvd |-> 4],
      [eid |-> 3, activePower |-> 7, actEnergyDlvd |-> 8, actEnergyRcvd |-> 1]>>

\* production.json; `prod` is the activeCount of the eim production section
\* and `cons` that of the total-consumption section.  The inverters section
\* carries no whToday and no whLastSevenDays, the storage section no
\* percentFull unless an AC battery is installed.
ProductionJson(prod, cons, battery) ==
    [production |->
        <<[type |-> "inverters", activeCount |-> 2, wNow |-> 4, whLifetime |-> 8],
          [type |-> "eim", activeCount |-> prod, wNow |-> 5, whToday |-> 3,
           whLastSevenDays |-> 6, whLifetime |-> 9]>>,
     consumption |->
        <<[measurementType |-> "total-consumption", activeCount |-> cons,
           wNow |-> 7, whToday |-> 4, whLastSevenDays |-> 5, whLifetime |-> 6]>>,
     storage |->
        IF battery THEN <<[type |-> "acb", activeCount |-> 1, percentFull |-> 50]>>
        ELSE <<[type |-> "acb", activeCount |-> 0]>>]

\* The payloads a device answers with, per path.  (The key of the device
\* list of ivp/ensemble/power is "devices:" on the device.)
Payloads(path) ==
    CASE path = "ivp/meters" -> {MetersPayload(s) : s \in SUBSET Range(MeterTypes)}
      [] path = "ivp/meters/readings" -> {<<>>, ReadingsPayload}
      [] path = "production.json" ->
            {ProductionJson(prod, cons, battery) :
                prod \in {0, 1}, cons \in {0, 1}, battery \in BOOLEAN}
      [] path = "ivp/ensemble/inventory" ->
            {<<>>, <<[type |-> "ENCHARGE", devices |-> <<[serial_num |-> 11]>>]>>}
      [] path = "ivp/ensemble/power" ->
            {[devices |-> <<>>],
             [devices |-> <<[serial_num |-> 11], [serial_num |-> 12]>>]}
      [] path = "ivp/ensemble/secctrl" -> {<<>>, [soc |-> 50]}
      [] path = "api/v1/production/inverters" -> {<<>>, <<[serialNumber |-> 21]>>}

\* ------------------------------------------------------------------ extractors

\* self.data.get(path) is not None
Fetched(g, path) == ~IsNone(g.data[path])

\* The elements of a list payload, [] when the path was never stored.
ListAt(g, path) == IF Fetched(g, path) THEN Val(g.data[path]) ELSE <<>>

\* The elements of one section of production.json.
Section(g, name) ==
    IF Fetched(g, "production.json") THEN Val(g.data["production.json"])[name] ELSE <<>>

\* `.field` applied to the matches: the elements without the field drop out.
Project(matches, field) ==
    LET having == SelectSeq(matches, LAMBDA m : field \in DOMAIN m)
    IN [i \in DOMAIN having |-> PyNum(having[i][field])]

\* JsonDescriptor.resolve, after jsonpath() returned `matches` (False when
\* there is none): no match gives the default None, one match the element.
resolve(matches) ==
    IF Len(matches) = 0 THEN PyNone
    ELSE IF Len(matches) = 1 THEN matches[1]
    ELSE PyList(matches)

\* The readings a `$.[?(@.eid=={meter})]` filter selects: `meter` is formatted
\* into the expression, so only a single eid can match.
ReadingsOf(g, meter) ==
    IF meter.t = "num"
    THEN SelectSeq(ListAt(g, "ivp/meters/readings"), LAMBDA r : r.eid = meter.v)
    ELSE <<>>

\* production[?(@.type=='<type>' && @.activeCount > 0)]
ProductionOf(g, type) ==
    SelectSeq(Section(g, "production"), LAMBDA r : r.type = type /\ r.activeCount > 0)

\* consumption[?(@.measurementType == '<type>' && @.activeCount > 0)]
ConsumptionOf(g, type) ==
    SelectSeq(Section(g, "consumption"),
              LAMBDA r : r.measurementType = type /\ r.activeCount > 0)

\* $.[?(@.state=='enabled' && @.measurementType=='<type>')].eid on ivp/meters
EnabledMeter(g, type) ==
    resolve(Project(SelectSeq(ListAt(g, "ivp/meters"),
                              LAMBDA m : m.state = "enabled" /\ m.measurementType = type),
                    "eid"))

\* {key: item for item in items}
DictBy(items, keyField) ==
    PyDict([k \in {items[i][keyField] : i \in DOMAIN items} |->
              CHOOSE item \in Range(items) : item[keyField] = k])

\* Envoy.inverters_production
Envoy_inverters_production(g) ==
    IF Len(ListAt(g, "api/v1/production/inverters")) > 0
    THEN DictBy(ListAt(g, "api/v1/production/inverters"), "serialNumber")
    ELSE PyNone

\* EnvoyS.ensemble_secctrl: the empty expression returns the payload, {} when absent.
EnvoyS_ensemble_secctrl(g) ==
    IF Fetched(g, "ivp/ensemble/secctrl") THEN PyDict(Val(g.data["ivp/ensemble/secctrl"]))
    ELSE PyDict(<<>>)

\* The matches of the expression "devices:" on ivp/ensemble/power.
PowerDevices(g) ==
    IF Fetched(g, "ivp/ensemble/power")
    THEN <<PyList(Val(g.data["ivp/ensemble/power"]).devices)>>
    ELSE <<>>

\* EnvoyS.ensemble_power
EnvoyS_ensemble_power(g) == resolve(PowerDevices(g))

\* EnvoyS.encharge_inventory
EnvoyS_encharge_inventory(g) ==
    LET matches == SelectSeq(ListAt(g, "ivp/ensemble/inventory"),
                             LAMBDA r : r.type = "ENCHARGE")
        result == resolve([i \in DOMAIN matches |-> PyList(matches[i].devices)])
    IN IF PyTruthy(result) THEN DictBy(result.v, "serial_num") ELSE PyNone

\* EnvoyS.encharge_power
EnvoyS_encharge_power(g) ==
    LET result == resolve(PowerDevices(g))
    IN IF PyTruthy(result) /\ result.t = "list" THEN DictBy(result.v, "serial_num")
       ELSE PyNone

\* EnvoyS.acb_storage
EnvoyS_acb_storage(g) ==
    LET matches == SelectSeq(Section(g, "storage"), LAMBDA r : "percentFull" \in DOMAIN r)
        result == resolve([i \in DOMAIN matches |-> PyDict(matches[i])])
    IN IF PyTruthy(result) THEN result ELSE PyDict(<<>>)

\* EnvoySMetered.production
EnvoySMetered_production(g) ==
    resolve(Project(ReadingsOf(g, g.production_meter), "activePower"))

\* EnvoySMetered.daily_production
EnvoySMetered_daily_production(g) == resolve(Project(ProductionOf(g, "eim"), "whToday"))

\* EnvoySMetered.seven_days_production
EnvoySMetered_seven_days_production(g) ==
    resolve(Project(ProductionOf(g, "eim"), "whLastSevenDays"))

\* EnvoySMetered.lifetime_production
EnvoySMetered_lifetime_production(g) ==
    resolve(Project(ReadingsOf(g, g.production_meter), "actEnergyDlvd"))

\* EnvoySMetered.consumption
EnvoySMetered_consumption(g) ==
    IF PyTruthy(g.net_consumption_meter)
    THEN LET prod == EnvoySMetered_production(g)
             readings == ReadingsOf(g, g.net_consumption_meter)
         IN IF PyTruthy(prod) /\ Len(readings) = 1 /\ prod.t = "num"
            THEN PyNum(prod.v + readings[1].activePower)
            ELSE PyNone
    ELSE PyNone

\* EnvoySMetered.daily_consumption
EnvoySMetered_daily_consumption(g) ==
    resolve(Project(ConsumptionOf(g, "total-consumption"), "whToday"))

\* EnvoySMetered.seven_days_consumption
EnvoySMetered_seven_days_consumption(g) ==
    resolve(Project(ConsumptionOf(g, "total-consumption"), "whLastSevenDays"))

\* EnvoySMetered.lifetime_consumption
EnvoySMetered_lifetime_consumption(g) ==
    IF PyTruthy(g.net_consumption_meter)
    THEN LET prod == EnvoySMetered_lifetime_production(g)
             readings == ReadingsOf(g, g.net_consumption_meter)
         IN IF PyTruthy(prod) /\ Len(readings) = 1 /\ prod.t = "num"
            THEN PyNum(prod.v - (readings[1].actEnergyRcvd - readings[1].actEnergyDlvd))
            ELSE PyNone
    ELSE PyNone

\* EnvoySMeteredCtDisabled.prod_type
prod_type(g) == IF PyTruthy(g.production_meter) THEN "eim" ELSE "inverters"

\* getattr(self, prop) for a registered attribute of the instance g.
AttributeValue(g, prop) ==
    CASE prop = "inverters_production" -> Envoy_inverters_production(g)
      [] prop = "ensemble_secctrl" -> EnvoyS_ensemble_secctrl(g)
      [] prop = "ensemble_power" -> EnvoyS_ensemble_power(g)
      [] prop = "encharge_inventory" -> EnvoyS_encharge_inventory(g)
      [] prop = "encharge_power" -> EnvoyS_encharge_power(g)
      [] prop = "acb_storage" -> EnvoyS_acb_storage(g)
      [] g.cls = "EnvoySMetered" ->
            (CASE prop = "production" -> EnvoySMetered_production(g)
              [] prop = "daily_production" -> EnvoySMetered_daily_production(g)
              [] prop = "seven_days_production" -> EnvoySMetered_seven_days_production(g)
              [] prop = "lifetime_production" -> EnvoySMetered_lifetime_production(g)
              [] prop = "consumption" -> EnvoySMetered_consumption(g)
              [] prop = "daily_consumption" -> EnvoySMetered_daily_consumption(g)
              [] prop = "seven_days_consumption" -> EnvoySMetered_seven_days_consumption(g)
              [] prop = "lifetime_consumption" -> EnvoySMetered_lifetime_consumption(g))
      [] g.cls = "EnvoySMeteredCtDisabled" ->
            (CASE prop = "production" -> resolve(Project(ProductionOf(g, prod_type(g)), "wNow"))
              [] prop = "daily_production" ->
                    resolve(Project(ProductionOf(g, prod_type(g)), "whToday"))
              [] prop = "seven_days_production" ->
                    resolve(Project(ProductionOf(g, prod_type(g)), "whLastSevenDays"))
              [] prop = "lifetime_production" ->
                    resolve(Project(ProductionOf(g, prod_type(g)), "whLifetime"))
              [] prop = "consumption" ->
                    resolve(Project(ConsumptionOf(g, "total-consumption"), "wNow"))
              [] prop = "daily_consumption" ->
                    resolve(Project(ConsumptionOf(g, "total-consumption"), "whToday"))
              [] prop = "seven_days_consumption" ->
                    resolve(Project(ConsumptionOf(g, "total-consumption"), "whLastSevenDays"))
              [] prop = "lifetime_consumption" ->
                    resolve(Project(ConsumptionOf(g, "total-consumption"), "whLifetime")))

\* ------------------------------------------------------------------ gateway

NoData == [p \in Paths |-> None]

\* BaseGateway.__init__, and the __init__ of EnvoySMetered (the meters are
\* None) and of EnvoySMeteredCtDisabled (the meters are the arguments).
NewGateway(cls, pm, ncm, tcm) ==
    [cls |-> cls,
     data |-> NoData,
     initial_update_finished |-> FALSE,
     _required_endpoints |-> None,
     _probes_finished |-> FALSE,
     production_meter |-> pm,
     net_consumption_meter |-> ncm,
     total_consumption_meter |-> tcm]

\* The gateway instance in use.
Self ==
    [cls |-> gateway,
     data |-> data,
     initial_update_finished |-> initial_update_finished,
     _required_endpoints |-> _required_endpoints,
     _probes_finished |-> _probes_finished,
     production_meter |-> production_meter,
     net_consumption_meter |-> net_consumption_meter,
     total_consumption_meter |-> total_consumption_meter]

\* The instance in use becomes g.
Becomes(g) ==
    /\ gateway' = g.cls
    /\ data' = g.data
    /\ initial_update_finished' = g.initial_update_finished
    /\ _required_endpoints' = g._required_endpoints
    /\ _probes_finished' = g._probes_finished
    /\ production_meter' = g.production_meter
    /\ net_consumption_meter' = g.net_consumption_meter
    /\ total_consumption_meter' = g.total_consumption_meter

update_endpoints_keeps_first(st, endpoint) ==
    LET path == EndpointPath(endpoint)
    IN IF path \notin Keys(st.endpoints)
       THEN [st EXCEPT !.endpoints = Append(@, [key |-> path, val |-> endpoint])]
       ELSE st

\* update_endpoints(endpoint), local to required_endpoints; st holds the
\* dict `endpoints` and the cache of every endpoint object.
update_endpoints(st, endpoint) ==
    LET path == EndpointPath(endpoint)
    IN IF path \notin Keys(st.endpoints)
       THEN [st EXCEPT !.endpoints = Append(@, [key |-> path, val |-> endpoint])]
       ELSE LET _endpoint == Get(st.endpoints, path)
            IN IF st.cache[endpoint] < st.cache[_endpoint]
               THEN [st EXCEPT !.cache[_endpoint] = st.cache[endpoint]]
               ELSE st

RECURSIVE CollectProperties_always_filters(_, _, _, _)
CollectProperties_always_filters(st, g, props, i) ==
    IF i > Len(props) THEN st
    ELSE IF IsEmptyValue(AttributeValue(g, props[i].key))
         THEN CollectProperties_always_filters(st, g, props, i + 1)
         ELSE CollectProperties_always_filters(update_endpoints(st, props[i].val),
                                               g, props, i + 1)

RECURSIVE CollectProperties_never_filters(_, _, _, _)
CollectProperties_never_filters(st, g, props, i) ==
    IF i > Len(props) THEN st
    ELSE CollectProperties_never_filters(update_endpoints(st, props[i].val),
                                         g, props, i + 1)

RECURSIVE CollectProperties(_, _, _, _)
\* The loop of required_endpoints over self._gateway_properties.
CollectProperties(st, g, props, i) ==
    IF i > Len(props) THEN st
    ELSE IF g.initial_update_finished /\ IsEmptyValue(AttributeValue(g, props[i].key))
         THEN CollectProperties(st, g, props, i + 1)
         ELSE CollectProperties(update_endpoints(st, props[i].val), g, props, i + 1)

RECURSIVE CollectProbes(_, _, _)
\* The loop of required_endpoints over self._gateway_probes.
CollectProbes(st, probes, i) ==
    IF i > Len(probes) THEN st
    ELSE CollectProbes(update_endpoints(st, probes[i].val), probes, i + 1)

\* bool(self._required_endpoints)
HasRequiredEndpoints(g) ==
    ~IsNone(g._required_endpoints) /\ Len(Val(g._required_endpoints)) > 0

required_endpoints_without_probes(g, caches) ==
    IF HasRequiredEndpoints(g)
    THEN [result |-> Val(g._required_endpoints), g |-> g, cache |-> caches]
    ELSE LET props == CollectProperties([endpoints |-> <<>>, cache |-> caches],
                                        g, GatewayProperties(g.cls), 1)
         IN IF g.initial_update_finished
            THEN [result |-> props.endpoints,
                  g |-> [g EXCEPT !._required_endpoints = Some(props.endpoints)],
                  cache |-> props.cache]
            ELSE [result |-> props.endpoints, g |-> g, cache |-> props.cache]

required_endpoints_keeps_probes(g, caches) ==
    IF HasRequiredEndpoints(g)
    THEN [result |-> Val(g._required_endpoints), g |-> g, cache |-> caches]
    ELSE LET props == CollectProperties([endpoints |-> <<>>, cache |-> caches],
                                        g, GatewayProperties(g.cls), 1)
             all == CollectProbes(props, GatewayProbes(g.cls), 1)
         IN IF g.initial_update_finished
            THEN [result |-> all.endpoints,
                  g |-> [g EXCEPT !._required_endpoints = Some(all.endpoints)],
                  cache |-> all.cache]
            ELSE [result |-> all.endpoints, g |-> g, cache |-> all.cache]

\* BaseGateway.required_endpoints: the returned dict, the instance and the
\* endpoint objects' cache after the call.
required_endpoints(g, caches) ==
    IF HasRequiredEndpoints(g)
    THEN [result |-> Val(g._required_endpoints), g |-> g, cache |-> caches]
    ELSE LET props == CollectProperties([endpoints |-> <<>>, cache |-> caches],
                                        g, GatewayProperties(g.cls), 1)
         IN IF g.initial_update_finished
            THEN [result |-> props.endpoints,
                  g |-> [g EXCEPT !._required_endpoints = Some(props.endpoints)],
                  cache |-> props.cache]
            ELSE LET all == CollectProbes(props, GatewayProbes(g.cls), 1)
                 IN [result |-> all.endpoints, g |-> g, cache |-> all.cache]

set_endpoint_data_stores_400(g, endpoint, response) ==
    IF response.status_code > 400 THEN g
    ELSE [g EXCEPT !.data[EndpointPath(endpoint)] = Some(response.json)]

\* BaseGateway.set_endpoint_data; response.json() is the response's payload.
set_endpoint_data(g, endpoint, response) ==
    IF response.status_code >= 400 THEN g
    ELSE [g EXCEPT !.data[EndpointPath(endpoint)] = Some(response.json)]

\* EnvoySMetered.ivp_meters_probe
ivp_meters_probe(g) ==
    [g EXCEPT !.production_meter = EnabledMeter(g, "production"),
              !.net_consumption_meter = EnabledMeter(g, "net-consumption"),
              !.total_consumption_meter = EnabledMeter(g, "total-consumption")]

RECURSIVE RunProbesFrom(_, _, _)
\* The loop of run_probes.
RunProbesFrom(g, probes, i) ==
    IF i > Len(probes) THEN g
    ELSE RunProbesFrom([ivp_meters_probe(g) EXCEPT !._probes_finished = TRUE],
                       probes, i + 1)

run_probes_never_finishes(g) == ivp_meters_probe(g)

\* BaseGateway.run_probes
run_probes(g) == RunProbesFrom(g, GatewayProbes(g.cls), 1)

get_subclass_ignores_total(g) ==
    IF g.cls = "EnvoySMetered" /\ g._probes_finished
    THEN IF ~PyTruthy(g.production_meter) \/ ~PyTruthy(g.net_consumption_meter)
         THEN Some(NewGateway("EnvoySMeteredCtDisabled", g.production_meter,
                              g.net_consumption_meter, g.total_consumption_meter))
         ELSE None
    ELSE None

get_subclass_keeps_data(g) ==
    IF g.cls = "EnvoySMetered" /\ g._probes_finished
    THEN LET consumption_meter ==
                IF PyTruthy(g.net_consumption_meter) THEN g.net_consumption_meter
                ELSE g.total_consumption_meter
         IN IF ~PyTruthy(g.production_meter) \/ ~PyTruthy(consumption_meter)
            THEN Some([NewGateway("EnvoySMeteredCtDisabled", g.production_meter,
                                  g.net_consumption_meter, g.total_consumption_meter)
                       EXCEPT !.data = g.data])
            ELSE None
    ELSE None

\* BaseGateway.get_subclass and EnvoySMetered.get_subclass: None or the new instance.
get_subclass(g) ==
    IF g.cls = "EnvoySMetered" /\ g._probes_finished
    THEN LET consumption_meter ==
                IF PyTruthy(g.net_consumption_meter) THEN g.net_consumption_meter
                ELSE g.total_consumption_meter
         IN IF ~PyTruthy(g.production_meter) \/ ~PyTruthy(consumption_meter)
            THEN Some(NewGateway("EnvoySMeteredCtDisabled", g.production_meter,
                                 g.net_consumption_meter, g.total_consumption_meter))
            ELSE None
    ELSE None

\* ------------------------------------------------------------------ actions

\* The endpoint objects a fetch is made for: the first one registered per path.
FetchableEndpoints(cls) ==
    LET props == CollectProperties([endpoints |-> <<>>, cache |-> cache],
                                   NewGateway(cls, PyNone, PyNone, PyNone),
                                   GatewayProperties(cls), 1)
        all == CollectProbes(props, GatewayProbes(cls), 1)
    IN {all.endpoints[i].val : i \in DOMAIN all.endpoints}

\* The responses to a fetch, given the status codes and the payloads a
\* specification draws from.
Responses(codes, payloads) ==
    {[status_code |-> c, json |-> j] : c \in codes, j \in payloads}

\* A caller reads gateway.required_endpoints.
RequiredEndpoints ==
    LET call == required_endpoints(Self, cache)
    IN /\ Becomes(call.g)
       /\ cache' = call.cache
       /\ returned' = Some(call.result)
       /\ lastOp' = [op |-> "required_endpoints"]
       /\ UNCHANGED <<now, last_fetch, passed, serviceVars>>

\* A caller stores the response of a fetch of endpoint e.
SetEndpointData(e, response) ==
    /\ Becomes(set_endpoint_data(Self, e, response))
    /\ returned' = None
    /\ lastOp' = [op |-> "set_endpoint_data", path |-> EndpointPath(e),
                  response |-> response]
    /\ UNCHANGED <<now, endpointVars, serviceVars>>

\* A caller runs the probes.
RunProbes ==
    /\ Becomes(run_probes(Self))
    /\ returned' = None
    /\ lastOp' = [op |-> "run_probes"]
    /\ UNCHANGED <<now, endpointVars, serviceVars>>

\* The classes after get_subclass has returned `subclass`: a new instance
\* went through __new__.
ClassesAfter(subclass) ==
    IF IsNone(subclass) THEN class_properties
    ELSE BaseGateway_new(Val(subclass).cls, class_properties).class_properties

\* A caller asks for the subclass.
GetSubclass ==
    /\ returned' = get_subclass(Self)
    /\ class_properties' = ClassesAfter(get_subclass(Self))
    /\ lastOp' = [op |-> "get_subclass"]
    /\ UNCHANGED <<now, endpointVars, gatewayVars, auth, info, other>>

\* The caller replaces the gateway by the instance get_subclass returned.
Substitute ==
    /\ lastOp.op = "get_subclass"
    /\ ~IsNone(returned)
    /\ Becomes(Val(returned))
    /\ returned' = None
    /\ lastOp' = [op |-> "substitute"]
    /\ UNCHANGED <<now, endpointVars, serviceVars>>

\* The caller sets gateway.initial_update_finished = True.
FinishInitialUpdate ==
    /\ ~initial_update_finished
    /\ initial_update_finished' = TRUE
    /\ returned' = None
    /\ lastOp' = [op |-> "finish_initial_update"]
    /\ UNCHANGED <<now, endpointVars, gateway, data, _required_endpoints,
                   _probes_finished, meterVars, serviceVars>>

\* ------------------------------------------------------------------ gateway info

\* GatewayInfo.__init__
GatewayInfo ==
    [part_number |-> None,
     serial_number |-> None,
     firmware_version |-> None,
     imeter |-> PyBool(FALSE),
     web_tokens |-> PyBool(FALSE),
     populated |-> FALSE,
     _last_fetch |-> None]

\* ------------------------------------------------------------------ specifications

\* The endpoint objects whose declared cache the specifications vary; every
\* other endpoint object has the cache the source declares, 0.
DeclaredCaches(varied) ==
    {[e \in AllEndpoints |-> IF e \in varied THEN chosen[e] ELSE 0] :
        chosen \in [varied -> 0..MaxCache]}

\* The endpoint objects exercised by the endpoint specification.
Endpoints == {<<"EnvoySMetered", "daily_production">>, <<"EnvoyS", "acb_storage">>}

InitGatewayIs(g) ==
    /\ gateway = g.cls
    /\ data = g.data
    /\ initial_update_finished = g.initial_update_finished
    /\ _required_endpoints = g._required_endpoints
    /\ _probes_finished = g._probes_finished
    /\ production_meter = g.production_meter
    /\ net_consumption_meter = g.net_consumption_meter
    /\ total_consumption_meter = g.total_consumption_meter

\* The state after construction, with an instance of `cls` as the gateway
\* in use ("unset" before the reader has chosen one).
InitWith(varied, cls) ==
    /\ now = 1
    /\ \E declared \in DeclaredCaches(varied) : EndpointInit(declared)
    /\ passed = [e \in AllEndpoints |-> None]
    /\ InitGatewayIs(NewGateway(cls, PyNone, PyNone, PyNone))
    /\ auth = None
    /\ info = GatewayInfo
    /\ class_properties = BaseGateway_new(cls, NoClassProperties).class_properties
    /\ other = None
    /\ returned = None
    /\ lastOp = [op |-> "init"]

InitCommon(varied) == InitWith(varied, "EnvoySMetered")

InitEndpoint == InitCommon(Endpoints)

NextEndpoint ==
    \/ Tick
    \/ \E e \in Endpoints, timestamp \in Timestamps : Success(e, timestamp)

SpecEndpoint == InitEndpoint /\ [][NextEndpoint]_vars

\* ---- the data store

\* The payloads the store and the gateway specification draw from.
GatewayPayloads(path) ==
    CASE path = "ivp/meters" ->
            {MetersPayload({}), MetersPayload({"production", "net-consumption"})}
      [] path = "ivp/meters/readings" -> {<<>>, ReadingsPayload}
      [] path = "production.json" ->
            {ProductionJson(0, 0, FALSE), ProductionJson(1, 1, FALSE)}
      [] path = "ivp/ensemble/inventory" -> {<<>>}
      [] path = "ivp/ensemble/power" ->
            {[devices |-> <<[serial_num |-> 11], [serial_num |-> 12]>>]}
      [] path = "ivp/ensemble/secctrl" -> {[soc |-> 50]}
      [] path = "api/v1/production/inverters" -> {<<[serialNumber |-> 21]>>}

StoreStatusCodes == {200, 399, 400, 404}

InitStore == InitCommon({})

NextStore ==
    \E e \in FetchableEndpoints(gateway) :
        \E response \in Responses(StoreStatusCodes, GatewayPayloads(EndpointPath(e))) :
            SetEndpointData(e, response)

SpecStore == InitStore /\ [][NextStore]_vars

\* ---- the merge of the caches of the endpoint objects of one path

\* The endpoint objects whose declared cache the merge specification varies.
MergedEndpoints ==
    {<<"EnvoySMetered", "daily_production">>, <<"EnvoySMetered", "daily_consumption">>,
     <<"EnvoyS", "acb_storage">>}

InitMerge == InitCommon(MergedEndpoints)

NextMerge ==
    \/ RequiredEndpoints
    \/ \E response \in Responses({200}, Payloads(EndpointPath(<<"EnvoySMetered", "daily_production">>))) :
          SetEndpointData(<<"EnvoySMetered", "daily_production">>, response)
    \/ FinishInitialUpdate

SpecMerge == InitMerge /\ [][NextMerge]_vars

\* ---- the required endpoints

InitGateway == InitCommon({})

NextGateway ==
    \/ RequiredEndpoints
    \/ \E e \in FetchableEndpoints(gateway) :
         \E response \in Responses({200}, GatewayPayloads(EndpointPath(e))) :
            SetEndpointData(e, response)
    \/ RunProbes
    \/ GetSubclass
    \/ Substitute
    \/ FinishInitialUpdate

SpecGateway == InitGateway /\ [][NextGateway]_vars

\* ---- the probe and the subclass

\* The payloads the probe specification draws from.
ProbePayloads(path) ==
    CASE path = "ivp/meters" -> Payloads(path)
      [] path = "production.json" -> {ProductionJson(1, 1, FALSE)}
      [] OTHER -> {}

InitProbe == InitCommon({})

NextProbe ==
    \/ \E e \in FetchableEndpoints(gateway) :
         \E response \in Responses({200}, ProbePayloads(EndpointPath(e))) :
            SetEndpointData(e, response)
    \/ RunProbes
    \/ GetSubclass
    \/ Substitute

SpecProbe == InitProbe /\ [][NextProbe]_vars

\* ---- the reader

\* What the device answers to a fetch of a path while the meters in
\* `enabled` are enabled.
DevicePayload(path, enabled) ==
    CASE path = "ivp/meters" -> MetersPayload(enabled)
      [] path = "ivp/meters/readings" -> ReadingsPayload
      [] path = "production.json" -> ProductionJson(1, 1, FALSE)
      [] path = "ivp/ensemble/inventory" -> <<>>
      [] path = "ivp/ensemble/power" ->
            [devices |-> <<[serial_num |-> 11], [serial_num |-> 12]>>]
      [] path = "ivp/ensemble/secctrl" -> [soc |-> 50]
      [] path = "api/v1/production/inverters" -> <<[serialNumber |-> 21]>>

\* One step of an update(), as recorded in the history of the call.
Step(step, path) == [step |-> step, path |-> path]

RECURSIVE FetchEndpoints(_, _, _, _, _, _)
\* The reader's fetch of the required endpoints: every endpoint whose
\* cache has expired (every endpoint when forced) is fetched, its response
\* stored with set_endpoint_data and the endpoint marked with success().
FetchEndpoints(st, caches, endpoints, i, force, enabled) ==
    IF i > Len(endpoints) THEN st
    ELSE LET e == endpoints[i].val
             response == [status_code |-> 200,
                          json |-> DevicePayload(EndpointPath(e), enabled)]
         IN IF force \/ update_required_within(st.last_fetch, caches, e)
            THEN FetchEndpoints(
                    [g |-> set_endpoint_data(st.g, e, response),
                     last_fetch |-> success(st.last_fetch, e, None),
                     passed |-> [st.passed EXCEPT ![e] = Some(now)],
                     steps |-> Append(st.steps, Step("fetch", EndpointPath(e)))],
                    caches, endpoints, i + 1, force, enabled)
            ELSE FetchEndpoints(st, caches, endpoints, i + 1, force, enabled)

\* The end of GatewayReader.update(): the gateway in use is g, with
\* initial_update_finished set.
UpdateReturns(first, enabled, st, caches) ==
    /\ Becomes([st.g EXCEPT !.initial_update_finished = TRUE])
    /\ last_fetch' = st.last_fetch
    /\ passed' = st.passed
    /\ cache' = caches
    /\ returned' = None
    /\ lastOp' = [op |-> "update", first |-> first, enabled |-> enabled,
                  steps |-> Append(st.steps, Step("finish", ""))]
    /\ class_properties' =
          IF \E i \in DOMAIN st.steps : st.steps[i].step = "substitute"
          THEN BaseGateway_new(st.g.cls, class_properties).class_properties
          ELSE class_properties
    /\ UNCHANGED <<now, auth, info, other>>

\* GatewayReader.update() against a device whose enabled meters are
\* `enabled`: fetch the required endpoints whose cache has expired; in the
\* initial update run the probes, replace the gateway by the subclass
\* instance if there is one and fetch again for it, then set
\* initial_update_finished.  (Each step's result is bound before the next
\* step reads it.)  The calls of GatewayInfo.update() and of the auth's
\* update() that come first are recorded as steps; what they do is
\* modelled by GatewayInfo_update and by the auth's update.
Update(enabled) ==
    \E call \in {required_endpoints(Self, cache)} :
    \E fetched \in {FetchEndpoints([g |-> call.g, last_fetch |-> last_fetch,
                                    passed |-> passed,
                                    steps |-> <<Step("info.update", ""),
                                                Step("auth.update", "")>>],
                                   call.cache, call.result, 1, FALSE, enabled)} :
        IF initial_update_finished
        THEN UpdateReturns(FALSE, enabled, fetched, call.cache)
        ELSE \E probed \in {run_probes(fetched.g)} :
             \E subclass \in {get_subclass(probed)} :
                IF IsNone(subclass)
                THEN UpdateReturns(TRUE, enabled,
                                   [fetched EXCEPT !.g = probed,
                                                   !.steps = Append(@, Step("run_probes", ""))],
                                   call.cache)
                ELSE \E recall \in {required_endpoints(Val(subclass), call.cache)} :
                        UpdateReturns(TRUE, enabled,
                            FetchEndpoints([fetched EXCEPT
                                               !.g = recall.g,
                                               !.steps = @ \o <<Step("run_probes", ""),
                                                                Step("substitute", "")>>],
                                           recall.cache, recall.result, 1, TRUE,
                                           enabled),
                            recall.cache)

\* The endpoint objects whose declared cache the reader specification varies.
ReaderEndpoints ==
    {<<"EnvoySMetered", "production">>, <<"EnvoySMetered", "ivp_meters_probe">>}

InitReader == InitCommon(ReaderEndpoints)

NextReader ==
    \/ Tick
    \/ \E enabled \in SUBSET Range(MeterTypes) : Update(enabled)

SpecReader == InitReader /\ [][NextReader]_vars

\* ------------------------------------------------------------------ http

\* The number of retries of a request ranges over 0..MaxRetries.
MaxRetries == 2

\* What one attempt of a request meets on the wire: a transport error, or
\* a response with a status code.
TransportFailure == [kind |-> "transport", status_code |-> 0]

Answer(code) == [kind |-> "response", status_code |-> code]

\* The status codes the device and the cloud answer with.
StatusCodes == {200, 401, 500}

Exchanges == {TransportFailure} \cup {Answer(c) : c \in StatusCodes}

\* The wires of a request: what each of its attempts meets, in order (one
\* error status stands for all of them).
Wires == [1..(MaxRetries + 1) -> Exchanges \ {Answer(401)}]

\* httpx.Response.raise_for_status() raises for a 4xx or 5xx status.
is_error(code) == code >= 400 /\ code <= 599

\* The outcome of a request function: the response it returned, the
\* exception it raised, or "none" when it returned without a response.
Outcome(kind, code, attempts) ==
    [kind |-> kind, status_code |-> code, attempts |-> attempts]

RECURSIVE request_gives_up_late(_, _, _, _)
request_gives_up_late(attempt, retries, raise_for_status, wire) ==
    IF attempt > retries + 2 THEN Outcome("none", 0, attempt - 1)
    ELSE IF attempt > Len(wire) \/ wire[attempt].kind = "transport"
         THEN IF attempt >= retries + 2
              THEN Outcome("TransportError", 0, attempt)
              ELSE request_gives_up_late(attempt + 1, retries, raise_for_status, wire)
         ELSE IF raise_for_status /\ is_error(wire[attempt].status_code)
              THEN Outcome("HTTPStatusError", wire[attempt].status_code, attempt)
              ELSE Outcome("response", wire[attempt].status_code, attempt)

RECURSIVE request(_, _, _, _)
\* The loop of gateway_reader/http.py async_get and async_post, from
\* attempt `attempt` on: `for attempt in range(1, retries+2)`; a transport
\* error is raised when `attempt >= retries+1` and retried otherwise; a
\* status error raised by raise_for_status() is not caught; a loop that
\* ends returns None.
request(attempt, retries, raise_for_status, wire) ==
    IF attempt > retries + 1 THEN Outcome("none", 0, attempt - 1)
    ELSE IF wire[attempt].kind = "transport"
         THEN IF attempt >= retries + 1
              THEN Outcome("TransportError", 0, attempt)
              ELSE request(attempt + 1, retries, raise_for_status, wire)
         ELSE IF raise_for_status /\ is_error(wire[attempt].status_code)
              THEN Outcome("HTTPStatusError", wire[attempt].status_code, attempt)
              ELSE Outcome("response", wire[attempt].status_code, attempt)

\* gateway_reader/http.py async_get
async_get(retries, raise_for_status, wire) ==
    request(1, retries, raise_for_status, wire)

\* gateway_reader/http.py async_post
async_post(retries, raise_for_status, wire) ==
    request(1, retries, raise_for_status, wire)

\* A caller sends a GET request.
AsyncGet(retries, raise_for_status, wire) ==
    /\ returned' = Some(async_get(retries, raise_for_status, wire))
    /\ lastOp' = [op |-> "async_get", retries |-> retries,
                  raise_for_status |-> raise_for_status, wire |-> wire]
    /\ UNCHANGED <<now, endpointVars, gatewayVars, serviceVars>>

\* A caller sends a POST request.
AsyncPost(retries, raise_for_status, wire) ==
    /\ returned' = Some(async_post(retries, raise_for_status, wire))
    /\ lastOp' = [op |-> "async_post", retries |-> retries,
                  raise_for_status |-> raise_for_status, wire |-> wire]
    /\ UNCHANGED <<now, endpointVars, gatewayVars, serviceVars>>

NextHttp ==
    \/ \E retries \in 0..MaxRetries, raise_for_status \in BOOLEAN, wire \in Wires :
          AsyncGet(retries, raise_for_status, wire)
    \/ \E retries \in 0..MaxRetries, raise_for_status \in BOOLEAN, wire \in Wires :
          AsyncPost(retries, raise_for_status, wire)

SpecHttp == InitCommon({}) /\ [][NextHttp]_vars

\* ------------------------------------------------------------------ token authentication

\* Token expiry dates range over 2, 4, .. 2 * MaxTokens.
MaxTokens == 2

\* The stale token threshold ranges over 1..MaxThreshold.
MaxThreshold == 1

\* The default of the `retries` parameter of async_get and async_post.
DefaultRetries == 2

\* The `retries` argument _check_jwt passes to async_get.
CheckJwtRetries == 1

\* A token text: a JWT with the expiry date `exp`, or the empty text.
Jwt(exp) == [text |-> "jwt", exp |-> exp]

EmptyText == [text |-> "", exp |-> 0]

Tokens == {Jwt(2 * k) : k \in 1..MaxTokens} \cup {EmptyText}

\* Python truthiness of an Optional[str] argument and of a token.
TruthyStr(o) == ~IsNone(o) /\ Val(o) # ""

TruthyToken(o) == ~IsNone(o) /\ Val(o).text # ""

\* Python truthiness of the cookies: None and an empty jar are falsy.
TruthyCookies(o) == ~IsNone(o) /\ Val(o) # {}

\* The cookie jar the device sets when it validates `token`.
SessionCookies(token) == {[sessionId |-> token]}

EnphaseTokenAuth_requires_credentials(enlighten_username, enlighten_password, gateway_serial_num, token_raw, cache_token, auto_renewal, stale_token_threshold) ==
    IF TruthyStr(enlighten_username) /\ TruthyStr(enlighten_password)
         /\ TruthyStr(gateway_serial_num)
    THEN [raised |-> "",
          self |-> Some([_token |-> token_raw,
                         _cache_token |-> cache_token,
                         _stale_token_threshold |-> stale_token_threshold,
                         _enlighten_credentials |-> TRUE,
                         _auto_renewal |-> auto_renewal,
                         _cookies |-> None])]
    ELSE [raised |-> "TokenAuthConfigError", self |-> None]

\* EnphaseTokenAuth.__init__: the instance, or the exception raised.
EnphaseTokenAuth(enlighten_username, enlighten_password, gateway_serial_num, token_raw, cache_token, auto_renewal, stale_token_threshold) ==
    LET self == [_token |-> token_raw,
                 _cache_token |-> cache_token,
                 _stale_token_threshold |-> stale_token_threshold,
                 _enlighten_credentials |-> FALSE,
                 _auto_renewal |-> FALSE,
                 _cookies |-> None]
    IN IF TruthyStr(enlighten_username) /\ TruthyStr(enlighten_password)
            /\ TruthyStr(gateway_serial_num)
       THEN [raised |-> "",
             self |-> Some([self EXCEPT !._enlighten_credentials = TRUE,
                                        !._auto_renewal = auto_renewal])]
       ELSE IF ~TruthyToken(token_raw)
            THEN [raised |-> "TokenAuthConfigError", self |-> None]
            ELSE [raised |-> "", self |-> Some(self)]

\* self._decode_token(self._token) succeeds on a JWT only.
Decodable(token) == ~IsNone(token) /\ Val(token).text = "jwt"

\* EnphaseTokenAuth.expiration_date
expiration_date(self) == Val(self._token).exp

\* EnphaseTokenAuth.is_expired
is_expired(self) ==
    IF now <= expiration_date(self) THEN FALSE ELSE TRUE

is_stale_never(self) == FALSE

is_stale_from_boundary(self) ==
    IF now < expiration_date(self) - self._stale_token_threshold THEN FALSE
    ELSE TRUE

\* EnphaseTokenAuth.is_stale
is_stale(self) ==
    LET exp_time == expiration_date(self) - self._stale_token_threshold
    IN IF now <= exp_time THEN FALSE ELSE TRUE

\* The element of a singleton set.  `The({f(x) : x \in {e}})` is f(e) with e
\* evaluated once, which is how the methods below bind the result of one
\* awaited call before they pass it on.
The(S) == CHOOSE x \in S : TRUE

\* The progress of a method call: the instance, the requests made so far,
\* the exception raised ("" when none) and the value returned.
Run(self) == [self |-> self, calls |-> <<>>, raised |-> "", value |-> None]

Raise(run, exception) == [run EXCEPT !.raised = exception]

Return(run, value) == [run EXCEPT !.value = value]

\* A request sent to the Enlighten cloud or to the gateway.  For the login
\* `session_id` is the one its response carries ("" when the login fails),
\* for the token request the one it passes; `token` is the one check_jwt
\* carries; `resp` is what async_post or async_get made of the request.
Call(run, to, session_id, token, resp) ==
    [run EXCEPT !.calls =
        Append(@, [to |-> to, session_id |-> session_id, token |-> token,
                   resp |-> resp])]

\* What async_post with its default retries makes of a request to the cloud.
Posted(wire) == async_post(DefaultRetries, TRUE, wire)

\* A wire that meets the same exchange on every attempt.
Steady(exchange) == [k \in 1..(MaxRetries + 1) |-> exchange]

\* What the cloud and the gateway do during one method call: the wire of
\* the login request, the session id the login answers with, the wire of the
\* token request, the token text it answers with, the wire of the
\* gateway's auth/check_jwt, whether its page says "Valid token.", whether
\* it sets a cookie, and whether the token cache file exists.  The cache
\* file is read only by an instance that caches its token and holds none,
\* and reading it fails before any request is sent, so the worlds with a
\* cache file vary little else; so do the worlds in which the gateway
\* answers auth/check_jwt with an error status other than 401.
Worlds ==
    LET failed == Exchanges \ {Answer(200)}
        clouds ==
            {[login |-> Steady(x), session_id |-> "", tokens |-> Steady(x),
              issued |-> EmptyText] : x \in failed}
            \cup {[login |-> Steady(Answer(200)), session_id |-> s,
                   tokens |-> Steady(x), issued |-> EmptyText] :
                    s \in {"s1", "s2"}, x \in failed}
            \cup {[login |-> Steady(Answer(200)), session_id |-> s,
                   tokens |-> Steady(Answer(200)), issued |-> t] :
                    s \in {"s1", "s2"}, t \in Tokens}
        devices ==
            {[check_jwt |-> Steady(Answer(200)), valid |-> TRUE, cookie |-> TRUE],
             [check_jwt |-> Steady(Answer(200)), valid |-> TRUE, cookie |-> FALSE],
             [check_jwt |-> Steady(Answer(200)), valid |-> FALSE, cookie |-> FALSE],
             [check_jwt |-> Steady(Answer(401)), valid |-> FALSE, cookie |-> FALSE],
             [check_jwt |-> Steady(TransportFailure), valid |-> FALSE, cookie |-> FALSE]}
    IN {[cloud |-> c, device |-> d, cache_file |-> FALSE] :
            c \in clouds, d \in devices}
       \cup {[cloud |-> c, device |-> d, cache_file |-> FALSE] :
               c \in {x \in clouds : x.issued # EmptyText /\ x.session_id = "s1"},
               d \in {[check_jwt |-> Steady(Answer(500)), valid |-> FALSE,
                        cookie |-> FALSE]}}
       \cup {[cloud |-> c, device |-> d, cache_file |-> TRUE] :
               c \in {x \in clouds : x.issued # EmptyText /\ x.session_id = "s1"},
               d \in {x \in devices : x.cookie}}

\* _async_post_enlighten without the translation of a transport error.
_async_post_enlighten_passes_transport_error(wire) ==
    LET resp == Posted(wire)
    IN CASE resp.kind = "TransportError" -> "TransportError"
         [] resp.kind = "HTTPStatusError" ->
                (IF resp.status_code = 401 THEN "EnlightenAuthenticationError"
                 ELSE "HTTPStatusError")
         [] OTHER -> ""

\* EnphaseTokenAuth._async_post_enlighten: the exception it raises, "" when
\* it returns the response.
_async_post_enlighten(wire) ==
    LET resp == Posted(wire)
    IN CASE resp.kind = "TransportError" -> "EnlightenCommunicationError"
         [] resp.kind = "HTTPStatusError" ->
                (IF resp.status_code = 401 THEN "EnlightenAuthenticationError"
                 ELSE "HTTPStatusError")
         [] OTHER -> ""

_fetch_enphase_token_skips_login(run, world) ==
    LET posted == Call(run, "tokens", world.cloud.session_id, None,
                       Posted(world.cloud.tokens))
        tokens == _async_post_enlighten(world.cloud.tokens)
    IN IF tokens # "" THEN Raise(posted, tokens)
       ELSE Return(posted, Some(world.cloud.issued))

\* EnphaseTokenAuth._fetch_enphase_token: the login POST, then the token
\* POST with the session id of the login response; returns resp.text.
_fetch_enphase_token(run, world) ==
    LET logged == Call(run, "login", world.cloud.session_id, None,
                       Posted(world.cloud.login))
        login == _async_post_enlighten(world.cloud.login)
        posted == Call(logged, "tokens", world.cloud.session_id, None,
                       Posted(world.cloud.tokens))
        tokens == _async_post_enlighten(world.cloud.tokens)
    IN IF login # "" THEN Raise(logged, login)
       ELSE IF tokens # "" THEN Raise(posted, tokens)
       ELSE Return(posted, Some(world.cloud.issued))

\* EnphaseTokenAuth._check_jwt: returns the cookies or None.  `token[:9]`
\* on None is a TypeError; `resp` is unbound in the HTTPStatusError branch.
_check_jwt(run, world, token, fail_silent) ==
    IF IsNone(token)
    THEN IF fail_silent THEN Return(run, None) ELSE Raise(run, "TypeError")
    ELSE LET resp == async_get(CheckJwtRetries, TRUE, world.device.check_jwt)
             called == Call(run, "check_jwt", "", token, resp)
         IN CASE resp.kind = "HTTPStatusError" -> Raise(called, "UnboundLocalError")
              [] resp.kind = "TransportError" ->
                    (IF fail_silent THEN Return(called, None)
                     ELSE Raise(called, "GatewayCommunicationError"))
              [] OTHER ->
                    (IF world.device.valid
                     THEN Return(called, Some(IF world.device.cookie
                                              THEN SessionCookies(Val(token))
                                              ELSE {}))
                     ELSE IF fail_silent THEN Return(called, None)
                     ELSE Raise(called, "InvalidTokenError"))

refresh_token_keeps_cookies(run, world) ==
    LET Set(fetched) ==
            IF fetched.raised # "" THEN fetched
            ELSE IF ~Decodable(fetched.value)
                 THEN Raise([fetched EXCEPT !.self._token = fetched.value,
                                            !.value = None], "DecodeError")
            ELSE [fetched EXCEPT !.self._token = fetched.value, !.value = None]
    IN IF ~run.self._enlighten_credentials THEN Raise(run, "TokenAuthConfigError")
       ELSE The({Set(fetched) : fetched \in {_fetch_enphase_token(run, world)}})

\* EnphaseTokenAuth.refresh_token; the debug message reads expiration_date.
refresh_token(run, world) ==
    LET Set(fetched) ==
            IF fetched.raised # "" THEN fetched
            ELSE IF ~Decodable(fetched.value)
                 THEN Raise([fetched EXCEPT !.self._token = fetched.value,
                                            !.self._cookies = None,
                                            !.value = None], "DecodeError")
            ELSE [fetched EXCEPT !.self._token = fetched.value,
                                 !.self._cookies = None, !.value = None]
    IN IF ~run.self._enlighten_credentials THEN Raise(run, "TokenAuthConfigError")
       ELSE The({Set(fetched) : fetched \in {_fetch_enphase_token(run, world)}})

\* EnphaseTokenAuth.refresh_cookies
refresh_cookies(run, world) ==
    LET Set(checked) ==
            IF checked.raised # "" THEN checked
            ELSE IF ~IsNone(checked.value)
                 THEN [checked EXCEPT !.self._cookies = checked.value, !.value = None]
            ELSE checked
    IN The({Set(checked) : checked \in {_check_jwt(run, world, run.self._token, FALSE)}})

\* EnphaseTokenAuth._load_token_from_cache: `filepath` is bound to the
\* bool is_file() returns, so filepath.open() is an AttributeError.
_load_token_from_cache(run, world) ==
    IF world.cache_file THEN Raise(run, "AttributeError") ELSE Return(run, None)

\* EnphaseTokenAuth._setup_token.  The Enlighten errors are GatewayErrors,
\* which neither `except httpx.TransportError` nor `except httpx.HTTPError`
\* catches; an HTTPStatusError is an httpx.HTTPError.
_setup_token(run, world) ==
    LET Cached(loaded, checked) ==
            IF ~run.self._cache_token THEN run
            ELSE IF loaded.raised # "" THEN loaded
            ELSE IF checked.raised # "" THEN checked
            ELSE IF TruthyToken(loaded.value) /\ TruthyCookies(checked.value)
                 THEN [checked EXCEPT !.self._token = loaded.value,
                                      !.self._cookies = checked.value,
                                      !.value = None]
                 ELSE Return(checked, None)
        Set(cached, fetched) ==
            IF cached.raised # "" THEN cached
            ELSE IF TruthyToken(cached.self._token) THEN cached
            ELSE IF fetched.raised = "HTTPStatusError"
                 THEN Raise(fetched, "TokenRetrievalError")
            ELSE IF fetched.raised # "" THEN fetched
            ELSE [fetched EXCEPT !.self._token = fetched.value, !.value = None]
        Checked(set) ==
            IF set.raised # "" THEN set
            ELSE IF ~TruthyToken(set.self._token)
                 THEN Raise(set, "GatewayAuthenticationError")
            ELSE set
    IN The({The({The({Checked(set) :
                        set \in {Set(cached, _fetch_enphase_token(cached, world))}}) :
                    cached \in {Cached(loaded,
                                       _check_jwt(loaded, world, loaded.value, TRUE))}}) :
                loaded \in {_load_token_from_cache(run, world)}})

update_always_renews(run, world) ==
    LET Renewed(setup) ==
            IF setup.raised # "" THEN setup
            ELSE IF ~Decodable(setup.self._token) THEN Raise(setup, "DecodeError")
            ELSE IF ~is_stale(setup.self) THEN setup
            ELSE refresh_token(setup, world)
        Validated(renewed) ==
            IF renewed.raised # "" THEN renewed
            ELSE IF ~TruthyCookies(renewed.self._cookies)
                 THEN refresh_cookies(renewed, world)
            ELSE renewed
    IN The({The({Validated(renewed) : renewed \in {Renewed(setup)}}) :
                setup \in {IF ~TruthyToken(run.self._token)
                           THEN _setup_token(run, world) ELSE run}})

\* EnphaseTokenAuth.update.  is_stale raises when the token cannot be
\* decoded; `except httpx.TransportError` keeps a token that is not expired.
update(run, world) ==
    LET Caught(refreshed) ==
            IF refreshed.raised = "TransportError"
            THEN IF is_expired(refreshed.self) THEN refreshed
                 ELSE Raise(refreshed, "")
            ELSE refreshed
        Renewed(setup) ==
            IF setup.raised # "" THEN setup
            ELSE IF ~Decodable(setup.self._token) THEN Raise(setup, "DecodeError")
            ELSE IF ~is_stale(setup.self) THEN setup
            ELSE IF setup.self._auto_renewal
                 THEN The({Caught(refreshed) :
                              refreshed \in {refresh_token(setup, world)}})
            ELSE setup
        Validated(renewed) ==
            IF renewed.raised # "" THEN renewed
            ELSE IF ~TruthyCookies(renewed.self._cookies)
                 THEN refresh_cookies(renewed, world)
            ELSE renewed
    IN The({The({Validated(renewed) : renewed \in {Renewed(setup)}}) :
                setup \in {IF ~TruthyToken(run.self._token)
                           THEN _setup_token(run, world) ELSE run}})

\* EnphaseTokenAuth.resolve_401: self.refresh_cookies(async_client) is
\* called without `await`, which creates a coroutine object and runs none
\* of its body; no exception can reach the except clauses.
resolve_401(run, world) == run

\* A caller constructs the EnphaseTokenAuth instance.
Construct(enlighten_username, enlighten_password, gateway_serial_num, token_raw, cache_token, auto_renewal, stale_token_threshold) ==
    LET made == EnphaseTokenAuth(enlighten_username, enlighten_password,
                                 gateway_serial_num, token_raw, cache_token,
                                 auto_renewal, stale_token_threshold)
    IN /\ IsNone(auth)
       /\ auth' = made.self
       /\ returned' = None
       /\ lastOp' = [op |-> "EnphaseTokenAuth", calls |-> <<>>, raised |-> made.raised,
                     credentials |-> <<enlighten_username, enlighten_password,
                                       gateway_serial_num>>,
                     token_raw |-> token_raw]
       /\ UNCHANGED <<now, endpointVars, gatewayVars, info, processVars>>

\* A method of the instance has run; `held` is the token held before it.
Called(op, run) ==
    /\ auth' = Some(run.self)
    /\ returned' = None
    /\ lastOp' = [op |-> op, calls |-> run.calls, raised |-> run.raised,
                  held |-> Val(auth)._token]
    /\ UNCHANGED <<now, endpointVars, gatewayVars, info, processVars>>

\* A caller awaits auth.update(client).
AuthUpdate(world) ==
    /\ ~IsNone(auth)
    /\ \E run \in {update(Run(Val(auth)), world)} : Called("update", run)

\* A caller awaits auth.resolve_401(client).
Resolve401(world) ==
    /\ ~IsNone(auth)
    /\ \E run \in {resolve_401(Run(Val(auth)), world)} : Called("resolve_401", run)

\* A caller reads the properties token, headers and cookies.
ReadProperties ==
    /\ ~IsNone(auth)
    /\ returned' = Some([token |-> Val(auth)._token,
                         headers |-> [Authorization |-> Val(auth)._token],
                         cookies |-> Val(auth)._cookies])
    /\ lastOp' = [op |-> "properties", calls |-> <<>>, raised |-> ""]
    /\ UNCHANGED <<now, endpointVars, gatewayVars, serviceVars>>

\* A caller reads the properties expiration_date, is_expired and is_stale,
\* each of which decodes the held token.
ReadExpiry ==
    /\ ~IsNone(auth)
    /\ returned' = IF Decodable(Val(auth)._token)
                   THEN Some([expiration_date |-> expiration_date(Val(auth)),
                              is_expired |-> is_expired(Val(auth)),
                              is_stale |-> is_stale(Val(auth))])
                   ELSE None
    /\ lastOp' = [op |-> "expiry", calls |-> <<>>,
                  raised |-> IF Decodable(Val(auth)._token) THEN "" ELSE "DecodeError"]
    /\ UNCHANGED <<now, endpointVars, gatewayVars, serviceVars>>

NextAuth ==
    \/ Tick
    \/ \E enlighten_username, enlighten_password, gateway_serial_num \in
                {None, Some(""), Some("x")},
          token_raw \in {None} \cup {Some(t) : t \in Tokens},
          cache_token, auto_renewal \in BOOLEAN,
          stale_token_threshold \in 1..MaxThreshold :
            Construct(enlighten_username, enlighten_password, gateway_serial_num,
                      token_raw, cache_token, auto_renewal, stale_token_threshold)
    \/ \E world \in Worlds : AuthUpdate(world)
    \/ \E world \in Worlds : Resolve401(world)
    \/ ReadProperties
    \/ ReadExpiry

SpecAuth == InitCommon({}) /\ [][NextAuth]_vars

\* ------------------------------------------------------------------ endpoint fetch

RECURSIVE http_request(_, _, _, _)
\* The loop of http.py async_get, from attempt `attempt` on: a transport
\* error would be raised when `attempt >= retries+2`, which no attempt of
\* `range(1, retries+2)` reaches, so the last one is followed by the end of
\* the loop and the function returns None.
http_request(attempt, retries, raise_for_status, wire) ==
    IF attempt > retries + 1 THEN Outcome("none", 0, attempt - 1)
    ELSE IF wire[attempt].kind = "transport"
         THEN IF attempt >= retries + 2
              THEN Outcome("TransportError", 0, attempt)
              ELSE http_request(attempt + 1, retries, raise_for_status, wire)
         ELSE IF raise_for_status /\ is_error(wire[attempt].status_code)
              THEN Outcome("HTTPStatusError", wire[attempt].status_code, attempt)
              ELSE Outcome("response", wire[attempt].status_code, attempt)

RECURSIVE _async_get_without_hook(_, _, _, _)
_async_get_without_hook(handle_401, use_token_auth, wires, recovery) ==
    LET resp == http_request(1, DefaultRetries, TRUE, Head(wires))
        retry == _async_get_without_hook(FALSE, use_token_auth, Tail(wires), recovery)
    IN IF resp.kind = "HTTPStatusError" /\ resp.status_code = 401
            /\ handle_401 /\ use_token_auth
       THEN [outcome |-> retry.outcome, requests |-> retry.requests + 1,
             hooks |-> retry.hooks]
       ELSE [outcome |-> resp, requests |-> 1, hooks |-> 0]

RECURSIVE _async_get(_, _, _, _)
\* GatewayReader._async_get: the outcome, the number of requests sent with
\* async_get and the number of times the recovery of a 401 was started.
\* `wires` are the wires of the request and of its retry; `recovery` tells
\* whether EnphaseToken.refresh_cookies() returns True and whether
\* EnphaseToken.refresh() returns without an exception.
_async_get(handle_401, use_token_auth, wires, recovery) ==
    LET resp == http_request(1, DefaultRetries, TRUE, Head(wires))
        retry == _async_get(FALSE, use_token_auth, Tail(wires), recovery)
    IN IF resp.kind = "HTTPStatusError" /\ resp.status_code = 401
            /\ handle_401 /\ use_token_auth
       THEN IF ~recovery.refresh_cookies /\ ~recovery.refresh
            THEN [outcome |-> resp, requests |-> 1, hooks |-> 1]
            ELSE [outcome |-> retry.outcome, requests |-> retry.requests + 1,
                  hooks |-> retry.hooks + 1]
       ELSE [outcome |-> resp, requests |-> 1, hooks |-> 0]

\* The wires the fetch specification draws from: the gateway answers every
\* attempt alike, or the first attempt meets a transport error.
FetchWires ==
    {Steady(x) : x \in Exchanges}
    \cup {[k \in 1..(MaxRetries + 1) |-> IF k = 1 THEN TransportFailure ELSE Answer(c)] :
            c \in StatusCodes}

Recoveries == [refresh_cookies : BOOLEAN, refresh : BOOLEAN]

\* The reader fetches a url.
AsyncGetEndpoint(use_token_auth, wires, recovery) ==
    /\ returned' = Some(_async_get(TRUE, use_token_auth, wires, recovery))
    /\ lastOp' = [op |-> "_async_get", use_token_auth |-> use_token_auth,
                  wires |-> wires, recovery |-> recovery]
    /\ UNCHANGED <<now, endpointVars, gatewayVars, serviceVars>>

RECURSIVE GatewayReader_update_endpoints(_, _, _, _, _, _)
\* The loop of GatewayReader.update_endpoints of gateway_reader_new.py over
\* the given endpoints, with _update_endpoint, Endpoint.update_required and
\* Endpoint.updated() (util/endpoint.py, the logic of GatewayEndpoint) and
\* set_endpoint_data of gateways.py, which reads response.headers and so
\* raises AttributeError on None.  fates[i] tells what the fetch of
\* endpoints[i] meets: its cancellation while it awaits the response, or
\* the wire of its requests and the recovery of a 401.  `failed` collects
\* the endpoints whose fetch obtained no response.
GatewayReader_update_endpoints(st, endpoints, i, detection, use_token_auth, fates) ==
    IF i > Len(endpoints) \/ st.raised # "" THEN st
    ELSE LET e == endpoints[i]
             got == _async_get(TRUE, use_token_auth,
                               <<fates[i].wire, fates[i].wire>>,
                               fates[i].recovery).outcome
             lost == [st EXCEPT !.failed = @ \cup {e}]
             updated == [st EXCEPT !.last_fetch = success(@, e, None)]
             after == IF ~update_required_within(st.last_fetch, cache, e) THEN st
                     ELSE IF fates[i].cancelled
                          THEN [lost EXCEPT !.raised = "CancelledError"]
                     ELSE IF got.kind = "HTTPStatusError"
                          THEN [lost EXCEPT !.raised = "HTTPStatusError"]
                     ELSE IF detection
                          THEN [updated EXCEPT
                                   !.endpoint_results[e] = got.kind,
                                   !.failed = IF got.kind = "none" THEN @ \cup {e} ELSE @]
                     ELSE IF got.kind = "none"
                          THEN [lost EXCEPT !.raised = "AttributeError"]
                     ELSE [updated EXCEPT !.data[EndpointPath(e)] =
                              Some(DevicePayload(EndpointPath(e), {}))]
         IN The({GatewayReader_update_endpoints(next, endpoints, i + 1, detection,
                                                use_token_auth, fates) :
                    next \in {after}})

\* The endpoints the fetch specification updates.
FetchedEndpoints ==
    <<<<"EnvoySMetered", "production">>, <<"EnvoyS", "ensemble_power">>>>

\* A caller awaits reader.update_endpoints(FetchedEndpoints, detection).
UpdateEndpoints(detection, use_token_auth, fates) ==
    \E st \in {GatewayReader_update_endpoints(
                   [data |-> data, last_fetch |-> last_fetch, raised |-> "",
                    failed |-> {},
                    endpoint_results |-> [e \in Range(FetchedEndpoints) |-> "unset"]],
                   FetchedEndpoints, 1, detection, use_token_auth, fates)} :
       /\ data' = st.data
       /\ last_fetch' = st.last_fetch
       /\ returned' = None
       /\ lastOp' = [op |-> "update_endpoints", detection |-> detection,
                     raised |-> st.raised, failed |-> st.failed,
                     endpoint_results |-> st.endpoint_results]
       /\ UNCHANGED <<now, cache, passed, gateway, initial_update_finished,
                      _required_endpoints, _probes_finished, meterVars, serviceVars>>

\* What the fetch of one endpoint meets, for the fetch specification.
Fates ==
    {[cancelled |-> c, wire |-> Steady(x), recovery |-> r] :
        c \in {FALSE}, x \in Exchanges,
        r \in {[refresh_cookies |-> b, refresh |-> b] : b \in BOOLEAN}}
    \cup {[cancelled |-> TRUE, wire |-> Steady(Answer(200)),
           recovery |-> [refresh_cookies |-> TRUE, refresh |-> TRUE]]}

NextAsyncGet ==
    \E use_token_auth \in BOOLEAN, first, second \in FetchWires,
       recovery \in Recoveries :
        AsyncGetEndpoint(use_token_auth, <<first, second>>, recovery)

SpecAsyncGet == InitCommon({}) /\ [][NextAsyncGet]_vars

NextFetch ==
    \/ Tick
    \/ \E detection, use_token_auth \in BOOLEAN, fates \in [1..2 -> Fates] :
          UpdateEndpoints(detection, use_token_auth, fates)

SpecFetch == InitCommon({<<"EnvoySMetered", "production">>}) /\ [][NextFetch]_vars

\* ------------------------------------------------------------------ gateway info fetch

\* The time GatewayInfo keeps its fields, the 86000 seconds of
\* update_required, in the clock's unit of 43000 seconds.
InfoCacheTime == 2

\* The `retries` argument _get_info passes to async_get.
GetInfoRetries == 1

\* What one attempt of the info request meets: a transport error of the
\* class `error`, or a response with a status code.
Failure(error) == [kind |-> "transport", status_code |-> 0, error |-> error]

InfoAnswer(code) == [kind |-> "response", status_code |-> code, error |-> ""]

\* httpx.ConnectError and httpx.TimeoutException are the classes _get_info
\* catches; ReadError stands for every other httpx.TransportError.
TransportErrors == {"ConnectError", "TimeoutException", "ReadError"}

\* The wires of the https and of the http request of one _get_info call:
\* the same exchange on every attempt, or a change between the attempts.
\* The http wire varies where the https wire ends in an error that makes
\* _get_info send the http request.
InfoWires ==
    LET Always(x) == [k \in 1..(GetInfoRetries + 1) |-> x]
        https == {Always(x) : x \in {Failure(e) : e \in TransportErrors}
                                      \cup {InfoAnswer(200), InfoAnswer(500)}}
                 \cup {<<Failure("ConnectError"), InfoAnswer(200)>>,
                       <<Failure("ReadError"), Failure("ConnectError")>>,
                       <<Failure("TimeoutException"), Failure("ReadError")>>}
        http == {Always(InfoAnswer(200)), Always(InfoAnswer(500)),
                 Always(Failure("ConnectError"))}
        FallsBack(wire) == wire[GetInfoRetries + 1].error \in {"ConnectError", "TimeoutException"}
    IN {[https |-> a, http |-> b] : a \in {w \in https : FallsBack(w)}, b \in http}
       \cup {[https |-> a, http |-> Always(InfoAnswer(200))] :
               a \in {w \in https : ~FallsBack(w)}}

\* The text of a <software> element: the letter of the version scheme, then
\* the sections of the version.
SoftwareTexts ==
    {<<"R", 3, 7, 0>>, <<"R", 3, 8, 10>>, <<"R", 3, 9, 0>>, <<"R", 3, 17, 3>>,
     <<"D", 7, 6, 175>>}

\* The bodies the device answers the info request with: a body that is no
\* XML, or a document with or without a <device> element, whose children
\* <software> (one of `texts`) and <imeter> may be missing; the document
\* of the newest firmware comes with and without a <web-tokens> element.
InfoPayloads(texts) ==
    {[parseable |-> FALSE, device |-> None, web_tokens |-> None],
     [parseable |-> TRUE, device |-> None, web_tokens |-> None]}
    \cup {[parseable |-> TRUE,
           device |-> Some([software |-> s, sn |-> Some("122"), pn |-> Some("800"),
                            imeter |-> i]),
           web_tokens |-> IF w /\ s = Some(<<"D", 7, 6, 175>>) THEN Some("true")
                          ELSE None] :
            s \in {None} \cup {Some(t) : t \in texts},
            i \in {None, Some("true"), Some("false")},
            w \in BOOLEAN}

\* AwesomeVersion(text): the sections of the version.
AwesomeVersion(text) == text

GatewayInfo_update_required_ignores_ttl(self) ==
    IF ~self.populated THEN TRUE ELSE FALSE

\* GatewayInfo.update_required
GatewayInfo_update_required(self) ==
    IF ~self.populated \/ Val(self._last_fetch) + InfoCacheTime <= now THEN TRUE
    ELSE FALSE

_get_info_never_falls_back(wires) ==
    LET https == async_get(GetInfoRetries, TRUE, wires.https)
    IN [outcome |-> https, requests |-> <<"https">>,
        https_error |-> IF https.kind = "TransportError"
                        THEN wires.https[https.attempts].error ELSE ""]

\* GatewayInfo._get_info: the https request, and the http request when the
\* https request raised a ConnectError or a TimeoutException (the error
\* async_get raises is the one of its last attempt).
_get_info(wires) ==
    LET https == async_get(GetInfoRetries, TRUE, wires.https)
        https_error == IF https.kind = "TransportError"
                       THEN wires.https[https.attempts].error ELSE ""
    IN IF https_error \in {"ConnectError", "TimeoutException"}
       THEN [outcome |-> async_get(GetInfoRetries, TRUE, wires.http),
             requests |-> <<"https", "http">>, https_error |-> https_error]
       ELSE [outcome |-> https, requests |-> <<"https">>,
             https_error |-> https_error]

\* GatewayInfo.update.  Every httpx.ConnectError and httpx.TimeoutException
\* is an httpx.TransportError, which the first except clause catches; an
\* HTTPStatusError is an httpx.HTTPError; etree.fromstring raises
\* XMLSyntaxError on a body that is no XML.
GatewayInfo_update(self, wires, payload) ==
    IF ~GatewayInfo_update_required(self)
    THEN [self |-> self, raised |-> "", fetch |-> None]
    ELSE LET got == _get_info(wires)
             device == payload.device
             Child(name) == IF IsNone(device) THEN None ELSE Val(device)[name]
             parsed ==
                [self EXCEPT
                    !.firmware_version =
                        IF ~IsNone(Child("software"))
                        THEN Some(AwesomeVersion(Tail(Val(Child("software")))))
                        ELSE @,
                    !.serial_number = IF ~IsNone(Child("sn")) THEN Child("sn") ELSE @,
                    !.part_number = IF ~IsNone(Child("pn")) THEN Child("pn") ELSE @,
                    !.imeter = IF ~IsNone(Child("imeter"))
                               THEN PyStr(Val(Child("imeter"))) ELSE @,
                    !.web_tokens = IF ~IsNone(payload.web_tokens)
                                   THEN PyStr(Val(payload.web_tokens)) ELSE @,
                    !._last_fetch = Some(now),
                    !.populated = TRUE]
         IN CASE got.outcome.kind = "TransportError" ->
                    [self |-> self, raised |-> "GatewayCommunicationError",
                     fetch |-> Some(got)]
              [] got.outcome.kind = "HTTPStatusError" ->
                    [self |-> self, raised |-> "EnvoyFirmwareCheckError",
                     fetch |-> Some(got)]
              [] ~payload.parseable ->
                    [self |-> self, raised |-> "XMLSyntaxError", fetch |-> Some(got)]
              [] OTHER -> [self |-> parsed, raised |-> "", fetch |-> Some(got)]

\* A caller awaits info.update() while the device answers the info request
\* as `wires` say, with the body `payload` (recorded when a response
\* arrived).  `after_fallback` tells whether the latest operation was an
\* update() that fell back to http.
InfoUpdate(wires, payload) ==
    \E call \in {GatewayInfo_update(info, wires, payload)} :
        /\ info' = call.self
        /\ returned' = None
        /\ lastOp' = [op |-> "info_update", raised |-> call.raised,
                      fetch |-> call.fetch,
                      payload |-> IF ~IsNone(call.fetch)
                                     /\ Val(call.fetch).outcome.kind = "response"
                                  THEN Some(payload) ELSE None,
                      after_fallback |->
                          /\ lastOp.op = "info_update"
                          /\ ~IsNone(lastOp.fetch)
                          /\ Len(Val(lastOp.fetch).requests) = 2]
        /\ UNCHANGED <<now, endpointVars, gatewayVars, auth, processVars>>

NextInfo ==
    \/ Tick
    \/ \E wires \in InfoWires,
          payload \in InfoPayloads({<<"R", 3, 7, 0>>, <<"D", 7, 6, 175>>}) :
            InfoUpdate(wires, payload)

SpecInfo == InitCommon({}) /\ [][NextInfo]_vars

\* ------------------------------------------------------------------ model detection

LEGACY_ENVOY_VERSION_one_minor_lower == <<3, 8, 0>>

\* LEGACY_ENVOY_VERSION = AwesomeVersion("3.9.0")
LEGACY_ENVOY_VERSION == <<3, 9, 0>>

RECURSIVE VersionLess(_, _)
\* a < b for two AwesomeVersions: the first section that differs decides,
\* compared as numbers.
VersionLess(a, b) ==
    IF Len(a) = 0 \/ Len(b) = 0 THEN Len(a) < Len(b)
    ELSE IF Head(a) # Head(b) THEN Head(a) < Head(b)
    ELSE VersionLess(Tail(a), Tail(b))

\* The gateway class the reader picks from the gateway info: EnvoyLegacy
\* below the legacy version, else EnvoySMetered when imeter is true, EnvoyS
\* when it is false and Envoy when it is unknown.  The info holds the text
\* of the <imeter> element, and the value of its constructor when the
\* document had none.
detect_model(self) ==
    IF VersionLess(Val(self.firmware_version), LEGACY_ENVOY_VERSION) THEN "EnvoyLegacy"
    ELSE IF self.imeter.t = "str" /\ self.imeter.v = "true" THEN "EnvoySMetered"
    ELSE IF self.imeter.t = "str" /\ self.imeter.v = "false" THEN "EnvoyS"
    ELSE "Envoy"

\* GatewayReader.prepare(): update the gateway info, then pick the gateway
\* class.  An exception of the update is passed on; a version that is None
\* cannot be compared.  A reader whose prepare() failed has no gateway yet
\* and prepares again.
Prepare(wires, payload) ==
    /\ gateway = "unset"
    /\ \E call \in {GatewayInfo_update(info, wires, payload)} :
        LET raised == IF call.raised # "" THEN call.raised
                      ELSE IF IsNone(call.self.firmware_version) THEN "TypeError"
                      ELSE ""
        IN /\ info' = call.self
           /\ IF raised = ""
              THEN /\ Becomes(NewGateway(detect_model(call.self), PyNone, PyNone, PyNone))
                   /\ class_properties' =
                         BaseGateway_new(detect_model(call.self),
                                         class_properties).class_properties
              ELSE UNCHANGED <<gatewayVars, class_properties>>
           /\ returned' = None
           /\ lastOp' = [op |-> "prepare", raised |-> raised, fetch |-> call.fetch,
                         payload |-> IF ~IsNone(call.fetch)
                                        /\ Val(call.fetch).outcome.kind = "response"
                                     THEN Some(payload) ELSE None]
           /\ UNCHANGED <<now, endpointVars, auth, other>>

InitDetect ==
    /\ InitWith({}, "unset")

NextDetect ==
    \/ Tick
    \/ \E wires \in InfoWires, payload \in InfoPayloads(SoftwareTexts) :
          Prepare(wires, payload)

SpecDetect == InitDetect /\ [][NextDetect]_vars

\* ------------------------------------------------------------------ pattern extractor

\* The patterns of the RegexDescriptors of EnvoyLegacy: the text of the
\* cell that labels the row, and the units the second group accepts.
EnvoyLegacyPatterns ==
    {[label |-> "Currently", units |-> {"W", "kW", "MW"}],
     [label |-> "Today", units |-> {"Wh", "kWh", "MWh"}],
     [label |-> "Past Week", units |-> {"Wh", "kWh", "MWh"}],
     [label |-> "Since Installation", units |-> {"Wh", "kWh", "MWh"}]}

\* The pages a device answers the `production` request with: the rows of
\* the table, each a label cell and a cell with a number and a unit ("" is
\* the page of an endpoint that was never stored).
LegacyPages ==
    {<<>>}
    \cup {<<[label |-> l, number |-> n, unit |-> u]>> :
            l \in {p.label : p \in EnvoyLegacyPatterns}, n \in {0, 2, 7},
            u \in {"W", "kW", "MW", "mW", "Wh", "kWh", "MWh"}}

\* re.search(regex, text, re.MULTILINE): the groups of the first row the
\* pattern matches, None when it matches none.
re_search(regex, text) ==
    LET rows == SelectSeq(text, LAMBDA row : row.label = regex.label
                                             /\ row.unit \in regex.units)
    IN IF Len(rows) = 0 THEN None ELSE Some(<<rows[1].number, rows[1].unit>>)

\* RegexDescriptor.resolve
RegexDescriptor_resolve(regex, text) ==
    LET match == re_search(regex, text)
    IN IF ~IsNone(match)
       THEN IF Val(match)[2] \in {"kW", "kWh"} THEN PyNum(Val(match)[1] * 1000)
            ELSE IF Val(match)[2] \in {"mW", "MWh"} THEN PyNum(Val(match)[1] * 1000000)
            ELSE PyNum(Val(match)[1])
       ELSE PyNone

\* A caller reads an attribute of an EnvoyLegacy whose `production` page is
\* `text`: RegexDescriptor.__get__ resolves the attribute's pattern.
ResolveRegex(regex, text) ==
    /\ returned' = Some(RegexDescriptor_resolve(regex, text))
    /\ lastOp' = [op |-> "regex_resolve", regex |-> regex, data |-> text]
    /\ UNCHANGED <<now, endpointVars, gatewayVars, serviceVars>>

NextRegex ==
    \E regex \in EnvoyLegacyPatterns, text \in LegacyPages : ResolveRegex(regex, text)

SpecRegex == InitCommon({}) /\ [][NextRegex]_vars

\* ------------------------------------------------------------------ path extractor

\* The expressions of the path extractor: the empty expression, the child
\* `key` of the payload, and every element of the list under `key`.
JsonPaths ==
    {[kind |-> "empty", key |-> ""]}
    \cup {[kind |-> k, key |-> key] : k \in {"child", "each"}, key \in {"a", "b"}}

\* The payloads the path extractor is applied to: dicts with some of the
\* keys a and b, each a number or a list of up to two numbers ({} is the
\* payload of an endpoint that was never stored).
JsonPayloads ==
    LET values == {PyNum(1), PyList(<<>>), PyList(<<PyNum(1)>>),
                   PyList(<<PyNum(1), PyNum(2)>>)}
    IN {PyDict(f) : f \in UNION {[keys -> values] : keys \in SUBSET {"a", "b"}}}

\* jsonpath(data, path): the list of the matches, empty where the library
\* returns False (it does so for every expression on a falsy payload).
jsonpath(payload, path) ==
    IF ~PyTruthy(payload) \/ path.key \notin DOMAIN payload.v THEN <<>>
    ELSE IF path.kind = "child" THEN <<payload.v[path.key]>>
    ELSE IF payload.v[path.key].t = "list" THEN payload.v[path.key].v
    ELSE <<>>

JsonDescriptor_resolve_without_default(path, payload, default) ==
    IF path.kind = "empty" THEN payload
    ELSE resolve(jsonpath(payload, path))

\* JsonDescriptor.resolve(path, data, default)
JsonDescriptor_resolve(path, payload, default) ==
    IF path.kind = "empty" THEN payload
    ELSE LET result == jsonpath(payload, path)
         IN IF Len(result) = 0 THEN default ELSE resolve(result)

\* A caller resolves a path expression on a payload.
ResolveJson(path, payload, default) ==
    /\ returned' = Some(JsonDescriptor_resolve(path, payload, default))
    /\ lastOp' = [op |-> "json_resolve", path |-> path, data |-> payload,
                  default |-> default]
    /\ UNCHANGED <<now, endpointVars, gatewayVars, serviceVars>>

NextJson ==
    \E path \in JsonPaths, payload \in JsonPayloads, default \in {PyNone, PyNum(0)} :
        ResolveJson(path, payload, default)

SpecJson == InitCommon({}) /\ [][NextJson]_vars

\* ------------------------------------------------------------------ storage attributes

\* Methods one class body decorates with a bare @gateway_property: the flag
\* gateway_property is set to None, so that BaseGateway.__new__ neither
\* registers them nor turns them into properties.
ClassBareMethods(cls) ==
    CASE cls = "EnvoyS" -> <<"battery_storage">>
      [] OTHER -> <<>>

\* The storage attributes of EnvoyS and of the classes that inherit them.
StorageAttributes ==
    {"encharge_inventory", "encharge_power", "ensemble_secctrl", "ensemble_power",
     "acb_storage", "battery_storage"}

StoragePaths ==
    {"ivp/ensemble/inventory", "ivp/ensemble/power", "ivp/ensemble/secctrl",
     "production.json"}

\* The payloads of the storage paths: without the sub-structure an
\* attribute looks for, and with it.
StoragePayloads(path) ==
    CASE path = "ivp/ensemble/inventory" ->
            Payloads(path) \cup {<<[type |-> "ENPOWER", devices |-> <<[serial_num |-> 13]>>]>>}
      [] path = "production.json" ->
            {ProductionJson(1, 1, battery) : battery \in BOOLEAN}
      [] OTHER -> Payloads(path)

\* A bound method, as a value.
PyMethod(name) == [t |-> "method", v |-> name]

\* EnvoyS.battery_storage(): self.ensemble_inventory is not an attribute of
\* the class (its descriptor is commented out) nor of the instance.
EnvoyS_battery_storage(g) == [value |-> None, raised |-> "AttributeError"]

\* getattr(g, name) on an instance of EnvoyS or of a class inheriting from
\* it: a registered attribute is a descriptor or a property and is
\* computed; a method with a bare flag is read as the bound method.
getattr(g, name) ==
    IF name \in Keys(GatewayProperties(g.cls))
    THEN [value |-> Some(AttributeValue(g, name)), raised |-> ""]
    ELSE IF \E c \in Range(<<g.cls>> \o Mro(g.cls)) : name \in Range(ClassBareMethods(c))
    THEN [value |-> Some(PyMethod(name)), raised |-> ""]
    ELSE [value |-> None, raised |-> "AttributeError"]

\* A caller reads a storage attribute of the gateway.
ReadStorage(name) ==
    LET read == getattr(Self, name)
    IN /\ returned' = read.value
       /\ lastOp' = [op |-> "getattr", name |-> name, raised |-> read.raised]
       /\ UNCHANGED <<now, endpointVars, gatewayVars, serviceVars>>

\* The caller calls the bound method the read returned.
CallStorage ==
    /\ lastOp.op = "getattr"
    /\ ~IsNone(returned)
    /\ Val(returned).t = "method"
    /\ LET call == EnvoyS_battery_storage(Self)
       IN /\ returned' = call.value
          /\ lastOp' = [op |-> "call", name |-> lastOp.name, raised |-> call.raised]
    /\ UNCHANGED <<now, endpointVars, gatewayVars, serviceVars>>

InitStorage ==
    \E cls \in {"EnvoyS", "EnvoySMetered", "EnvoySMeteredCtDisabled"} : InitWith({}, cls)

NextStorage ==
    \/ \E e \in FetchableEndpoints(gateway) :
          /\ EndpointPath(e) \in StoragePaths
          /\ \E response \in Responses({200}, StoragePayloads(EndpointPath(e))) :
                SetEndpointData(e, response)
    \/ \E name \in StorageAttributes : ReadStorage(name)
    \/ CallStorage

SpecStorage == InitStorage /\ [][NextStorage]_vars

\* ------------------------------------------------------------------ exposed attributes

\* BaseGateway.properties: the keys of _gateway_properties.
properties(g) == Keys(GatewayProperties(g.cls))

\* BaseGateway.all_values
all_values(g) == [attr \in properties(g) |-> AttributeValue(g, attr)]

\* A caller reads gateway.all_values.
AllValues ==
    /\ returned' = Some(all_values(Self))
    /\ lastOp' = [op |-> "all_values"]
    /\ UNCHANGED <<now, endpointVars, gatewayVars, serviceVars>>

NextExposed ==
    \/ NextGateway
    \/ AllValues

SpecExposed == InitGateway /\ [][NextExposed]_vars

\* ------------------------------------------------------------------ metered consumption

\* ivp/meters/readings with the given readings of the production meter
\* (eid 1) and of the net-consumption meter (eid 2).
Readings(prod_power, prod_dlvd, net_power, net_dlvd, net_rcvd) ==
    <<[eid |-> 1, activePower |-> prod_power, actEnergyDlvd |-> prod_dlvd,
       actEnergyRcvd |-> 0],
      [eid |-> 2, activePower |-> net_power, actEnergyDlvd |-> net_dlvd,
       actEnergyRcvd |-> net_rcvd],
      [eid |-> 3, activePower |-> 7, actEnergyDlvd |-> 8, actEnergyRcvd |-> 1]>>

\* The readings the consumption specification draws from: a production of
\* 0 and of 5 W, a lifetime production of 0 and of 9 Wh, a net consumption
\* in both directions.
MeteredReadings ==
    {Readings(prod_power, prod_dlvd, net_power, 7, net_rcvd) :
        prod_power \in {0, 5}, prod_dlvd \in {0, 9}, net_power \in {-2, 2},
        net_rcvd \in {4, 9}}

\* The meter configurations the consumption specification draws from.
MeteredConfigurations ==
    {MetersPayload(enabled) :
        enabled \in {{"production", "net-consumption"}, {"production"},
                     {"production", "total-consumption"}, {"net-consumption"}}}

MeteredAttributes ==
    {"production", "lifetime_production", "consumption", "lifetime_consumption"}

\* A caller reads an attribute of the metered gateway.
ReadMetered(name) ==
    LET read == getattr(Self, name)
    IN /\ returned' = read.value
       /\ lastOp' = [op |-> "getattr", name |-> name, raised |-> read.raised]
       /\ UNCHANGED <<now, endpointVars, gatewayVars, serviceVars>>

NextMetered ==
    \/ \E payload \in MeteredConfigurations :
          SetEndpointData(<<"EnvoySMetered", "ivp_meters_probe">>,
                          [status_code |-> 200, json |-> payload])
    \/ \E payload \in MeteredReadings \cup {<<>>} :
          SetEndpointData(<<"EnvoySMetered", "production">>,
                          [status_code |-> 200, json |-> payload])
    \/ RunProbes
    \/ \E name \in MeteredAttributes : ReadMetered(name)

SpecMetered == InitCommon({}) /\ [][NextMetered]_vars

\* ------------------------------------------------------------------ instances

\* A gateway instance beside the one in use, with the registry its
\* __new__ gave it.
Instance(g, made) == [g |-> g, properties |-> made.properties, probes |-> made.probes]

\* The process constructs a further gateway instance, of class cls.
Instantiate(cls) ==
    \E made \in {BaseGateway_new(cls, class_properties)} :
        /\ class_properties' = made.class_properties
        /\ other' = Some(Instance(NewGateway(cls, PyNone, PyNone, PyNone), made))
        /\ returned' = None
        /\ lastOp' = [op |-> "new", cls |-> cls,
                      first |-> class_properties[cls] = {}]
        /\ UNCHANGED <<now, endpointVars, gatewayVars, auth, info>>

NextClasses == \E cls \in Classes : Instantiate(cls)

SpecClasses == InitWith({}, "unset") /\ [][NextClasses]_vars

\* ---- two gateway instances in one process

\* The endpoint objects the operations of the instances specification act
\* on: one created by the class body of EnvoyS, one by that of
\* EnvoySMetered.
InstanceEndpoints == {<<"EnvoyS", "encharge_power">>, <<"EnvoySMetered", "production">>}

\* The endpoint objects whose declared cache the instances specification
\* varies.
InstanceCaches == {<<"EnvoyS", "encharge_power">>}

NextInstances ==
    \/ Tick
    \/ /\ IsNone(other)
       /\ \E cls \in {"EnvoyS", "EnvoySMetered"} : Instantiate(cls)
    \/ \E e \in InstanceEndpoints, timestamp \in {None, Some(MaxTime)} :
          Success(e, timestamp)
    \/ \E e \in InstanceEndpoints :
          SetEndpointData(e, [status_code |-> 200,
                              json |-> DevicePayload(EndpointPath(e), {})])
    \/ RequiredEndpoints
    \/ FinishInitialUpdate

SpecInstances == InitCommon(InstanceCaches) /\ [][NextInstances]_vars

\* ---- the loop of run_probes, one probe at a time

\* The names of instance._gateway_probes, in the order of the dict.
ProbeNames(cls) == [i \in DOMAIN GatewayProbes(cls) |-> GatewayProbes(cls)[i].key]

\* The registries of the gateways inspected: the one of EnvoySMetered, and the
\* one of a class derived from it whose body flags one more method with
\* @gateway_probe (the class itself comes first in the walk of __new__).
ProbeRegistries ==
    {ProbeNames("EnvoySMetered"), <<"derived_probe">> \o ProbeNames("EnvoySMetered")}

\* func = getattr(self, probe); func()
RunProbe(g, probe) ==
    IF probe = "ivp_meters_probe" THEN ivp_meters_probe(g) ELSE g

\* One pass of the loop of run_probes over the registry `probes`, at probe i.
ProbeIteration(g, probes, i) ==
    [RunProbe(g, probes[i]) EXCEPT !._probes_finished = TRUE]

\* A caller enters run_probes of a gateway whose registry is `probes`.
EnterRunProbes(probes) ==
    /\ lastOp.op # "run_probes"
    /\ ~_probes_finished
    /\ returned' = None
    /\ lastOp' = [op |-> "run_probes", probes |-> probes, i |-> 1]
    /\ UNCHANGED <<now, endpointVars, gatewayVars, serviceVars>>

\* The loop of run_probes runs the next probe.
NextProbeRuns ==
    /\ lastOp.op = "run_probes"
    /\ lastOp.i <= Len(lastOp.probes)
    /\ Becomes(ProbeIteration(Self, lastOp.probes, lastOp.i))
    /\ returned' = None
    /\ lastOp' = [lastOp EXCEPT !.i = lastOp.i + 1]
    /\ UNCHANGED <<now, endpointVars, serviceVars>>

\* run_probes returns: the loop has no probe left.
RunProbesReturns ==
    /\ lastOp.op = "run_probes"
    /\ lastOp.i > Len(lastOp.probes)
    /\ returned' = None
    /\ lastOp' = [op |-> "run_probes_returned"]
    /\ UNCHANGED <<now, endpointVars, gatewayVars, serviceVars>>

NextLoop ==
    \/ \E e \in FetchableEndpoints(gateway) :
         \E response \in Responses({200}, ProbePayloads(EndpointPath(e))) :
            /\ lastOp.op # "run_probes"
            /\ SetEndpointData(e, response)
    \/ \E probes \in ProbeRegistries : EnterRunProbes(probes)
    \/ NextProbeRuns
    \/ RunProbesReturns
    \/ lastOp.op # "run_probes" /\ GetSubclass

SpecLoop == InitProbe /\ [][NextLoop]_vars

\* ------------------------------------------------------------------ claims

Min(S) == CHOOSE x \in S : \A y \in S : x <= y

\* The latest operation was success(now) on endpoint e (the default
\* timestamp is the current time).
MarkedFetchedNow(e) ==
    /\ lastOp.op = "success"
    /\ lastOp.e = e
    /\ lastOp.timestamp \in {None, Some(now)}

\* C1 as stated: for any cache >= 0, update_required is true before any
\* fetch, false immediately after success(now), and true again only once
\* now >= last_fetch + cache.
C1_AnyCache ==
    \A e \in Endpoints :
        /\ IsNone(last_fetch[e]) => update_required(e)
        /\ MarkedFetchedNow(e) => ~update_required(e)
        /\ ~IsNone(last_fetch[e]) /\ update_required(e)
              => now >= Val(last_fetch[e]) + cache[e]

\* C1 amended: for any cache > 0, update_required is true before any fetch,
\* false immediately after success(now), and true again only once
\* now >= last_fetch + cache; with cache = 0 it is true at once after
\* success(now).
C1_PositiveCache ==
    \A e \in Endpoints :
        /\ IsNone(last_fetch[e]) => update_required(e)
        /\ MarkedFetchedNow(e) => (update_required(e) <=> cache[e] = 0)
        /\ ~IsNone(last_fetch[e]) /\ update_required(e)
              => now >= Val(last_fetch[e]) + cache[e]

\* C1 witness: an endpoint with a positive cache was marked fetched and the
\* clock has just reached last_fetch + cache, so that an update is required again.
C1_Witness ==
    \E e \in Endpoints :
        /\ cache[e] > 0
        /\ lastOp.op = "tick"
        /\ ~IsNone(last_fetch[e])
        /\ now = Val(last_fetch[e]) + cache[e]
        /\ update_required(e)

\* C2: in every reachable state update_required equals (no success call yet
\* or now >= t + cache), t being the timestamp passed to the latest success
\* call, 0 included.
C2_PassedTimestamp ==
    \A e \in Endpoints :
        update_required(e) <=>
            (IsNone(passed[e]) \/ now >= Val(passed[e]) + cache[e])

\* The endpoints required_endpoints combines for one path when it computes
\* the dict for instance g: those of the attributes it does not skip and,
\* before the initial update has finished, those of the probes.
Combined(g, path) ==
    LET props == GatewayProperties(g.cls)
        probes == GatewayProbes(g.cls)
    IN {props[i].val : i \in {j \in DOMAIN props :
            /\ EndpointPath(props[j].val) = path
            /\ g.initial_update_finished => ~IsEmptyValue(AttributeValue(g, props[j].key))}}
       \cup
       {probes[i].val : i \in {j \in DOMAIN probes :
            /\ EndpointPath(probes[j].val) = path
            /\ ~g.initial_update_finished}}

\* C3: when a call of required_endpoints combines the endpoints of one
\* path, the endpoint it returns for the path has the minimum of the caches
\* these endpoints had before the call, whatever their order.
C3_MergedCacheIsMinimum ==
    [][lastOp'.op = "required_endpoints" /\ ~HasRequiredEndpoints(Self)
        => \A i \in DOMAIN Val(returned') :
              LET entry == Val(returned')[i]
              IN /\ entry.val \in Combined(Self, entry.key)
                 /\ cache'[entry.val] =
                      Min({cache[e] : e \in Combined(Self, entry.key)})]_vars

\* C3 witness: a call combined endpoints of production.json with different
\* caches in the exploratory phase.
C3_Witness ==
    /\ lastOp.op = "required_endpoints"
    /\ ~initial_update_finished
    /\ \E e \in MergedEndpoints :
          cache[e] > cache[Get(Val(returned), "production.json")]

\* C4: set_endpoint_data with a status >= 400 leaves the data store
\* unchanged; with a status < 400 it overwrites the entry of the endpoint's
\* path with the response's payload and changes no other entry.
C4_StoreFrame ==
    [][lastOp'.op = "set_endpoint_data"
        => IF lastOp'.response.status_code >= 400
           THEN data' = data
           ELSE data' = [data EXCEPT ![lastOp'.path] = Some(lastOp'.response.json)]]_vars

\* C4 witness: a response with status 400 arrived for a path whose payload
\* was stored before and differs from the response's.
C4_Witness ==
    /\ lastOp.op = "set_endpoint_data"
    /\ lastOp.response.status_code = 400
    /\ ~IsNone(data[lastOp.path])
    /\ lastOp.path = "production.json"
    /\ data[lastOp.path] # Some(lastOp.response.json)

\* The paths of all registered attributes and probes of a class.
RegisteredPaths(cls) ==
    {EndpointPath(GatewayProperties(cls)[i].val) : i \in DOMAIN GatewayProperties(cls)}
    \cup {EndpointPath(GatewayProbes(cls)[i].val) : i \in DOMAIN GatewayProbes(cls)}

\* C5: while initial_update_finished is false nothing is cached and every
\* call of required_endpoints returns the endpoints of all registered
\* attributes, empty or not, and of all registered probes.
C5_ExploratoryPhase ==
    ~initial_update_finished =>
        /\ IsNone(_required_endpoints)
        /\ lastOp.op = "required_endpoints" =>
              /\ Keys(Val(returned)) = RegisteredPaths(gateway)
              /\ \A i \in DOMAIN Val(returned) :
                    EndpointPath(Val(returned)[i].val) = Val(returned)[i].key

\* C5 witness: a call in the exploratory phase while a fetched payload
\* leaves an attribute empty.
C5_Witness ==
    /\ ~initial_update_finished
    /\ lastOp.op = "required_endpoints"
    /\ Fetched(Self, "production.json")
    /\ IsEmptyValue(AttributeValue(Self, "daily_production"))

\* C6: once initial_update_finished is true and a call has computed the
\* set, every later call returns that same set, the empty set included.
C6_ComputedOnce ==
    [][/\ initial_update_finished
       /\ ~IsNone(_required_endpoints)
       /\ lastOp'.op = "required_endpoints"
       => returned' = _required_endpoints]_vars

\* The paths with at least one attribute of instance g resolving to a
\* value other than None, [] and {}.
NonEmptyPaths(g) ==
    LET props == GatewayProperties(g.cls)
    IN {EndpointPath(props[i].val) : i \in {j \in DOMAIN props :
            LET val == AttributeValue(g, props[j].key)
            IN ~(val.t = "none" \/ (val.t = "list" /\ val.v = <<>>)
                                \/ (val.t = "dict" /\ DOMAIN val.v = {}))}}

\* C7: the set required_endpoints computes once initial_update_finished is
\* true holds a path iff an attribute bound to it resolves to a non-empty
\* value; the probe's path is not in it.
C7_NonEmptyPaths ==
    [][/\ initial_update_finished
       /\ ~HasRequiredEndpoints(Self)
       /\ lastOp'.op = "required_endpoints"
       => /\ Keys(Val(returned')) = NonEmptyPaths(Self)
          /\ "ivp/meters" \notin Keys(Val(returned'))]_vars

\* C7 witness: the computed set holds production.json, of whose attributes
\* acb_storage is empty, and leaves out a fetched path whose attributes are
\* all empty.
C7_Witness ==
    /\ initial_update_finished
    /\ lastOp.op = "required_endpoints"
    /\ "production.json" \in Keys(Val(returned))
    /\ IsEmptyValue(AttributeValue(Self, "acb_storage"))
    /\ "ivp/ensemble/inventory" \notin Keys(Val(returned))
    /\ Fetched(Self, "ivp/ensemble/inventory")
    /\ Fetched(Self, "ivp/meters")

\* The measurement types of the enabled meters in the stored ivp/meters payload.
EnabledTypes ==
    {m.measurementType : m \in {x \in Range(ListAt(Self, "ivp/meters")) :
                                    x.state = "enabled"}}

\* C8: after the meter probe has run on a Metered gateway, get_subclass
\* returns the CTs-disabled variant iff no production meter is enabled or
\* neither a net-consumption nor a total-consumption meter is enabled.
C8_SubclassIffCtsDisabled ==
    lastOp.op = "run_probes" /\ gateway = "EnvoySMetered" =>
        LET subclass == get_subclass(Self)
            disabled ==
                \/ "production" \notin EnabledTypes
                \/ EnabledTypes \cap {"net-consumption", "total-consumption"} = {}
        IN /\ ~IsNone(subclass) <=> disabled
           /\ ~IsNone(subclass) => Val(subclass).cls = "EnvoySMeteredCtDisabled"

\* C8 witness: the probe found the production and the total-consumption
\* meter enabled and the net-consumption meter disabled: the gateway stays Metered.
C8_Witness ==
    /\ lastOp.op = "run_probes"
    /\ gateway = "EnvoySMetered"
    /\ EnabledTypes = {"production", "total-consumption"}
    /\ IsNone(get_subclass(Self))

\* The CTs count as disabled when no production meter is enabled or neither
\* a net-consumption nor a total-consumption meter is.
CtsDisabled(enabled) ==
    \/ "production" \notin enabled
    \/ enabled \cap {"net-consumption", "total-consumption"} = {}

\* C9: across repeated update() calls the gateway is substituted at most
\* once: only the first update of a Metered gateway whose CTs are disabled
\* substitutes the CTs-disabled variant, all of whose endpoints have been
\* fetched again when that update returns; every update leaves
\* initial_update_finished true and no later step changes the variant.
C9_SubstitutedAtMostOnce ==
    [][/\ gateway' # gateway =>
            /\ lastOp'.op = "update"
            /\ lastOp'.first
            /\ CtsDisabled(lastOp'.enabled)
            /\ gateway = "EnvoySMetered"
            /\ gateway' = "EnvoySMeteredCtDisabled"
            /\ \A path \in RegisteredPaths(gateway') :
                  data'[path] = Some(DevicePayload(path, lastOp'.enabled))
            /\ \A e \in FetchableEndpoints(gateway') : last_fetch'[e] = Some(now)
       /\ lastOp'.op = "update" /\ lastOp'.first /\ CtsDisabled(lastOp'.enabled)
            => gateway' # gateway
       /\ lastOp'.op = "update" => initial_update_finished'
       /\ initial_update_finished => initial_update_finished' /\ gateway' = gateway]_vars

\* C9 witness: a later update of a substituted gateway found the CTs still
\* disabled and an endpoint's cache not yet expired.
C9_Witness ==
    /\ lastOp.op = "update"
    /\ ~lastOp.first
    /\ CtsDisabled(lastOp.enabled)
    /\ gateway = "EnvoySMeteredCtDisabled"
    /\ \E e \in FetchableEndpoints(gateway) :
          ~IsNone(last_fetch[e]) /\ Val(last_fetch[e]) < now

\* C10 as stated: the instance that replaces the Metered gateway holds the
\* data store of the old instance.
C10_StoreCarriedOver ==
    [][lastOp'.op = "get_subclass" /\ ~IsNone(returned')
        => Val(returned').data = data]_vars

\* C10 amended: the instance get_subclass returns starts with an empty data
\* store (and nothing cached, the initial update not finished); only the
\* three meter ids of the probe are carried over, so every attribute of the
\* new instance is empty until its endpoints are fetched again.
C10_StoreStartsEmpty ==
    lastOp.op = "get_subclass" /\ ~IsNone(returned) =>
        LET new == Val(returned)
        IN /\ new.data = NoData
           /\ ~new.initial_update_finished
           /\ IsNone(new._required_endpoints)
           /\ new.production_meter = production_meter
           /\ new.net_consumption_meter = net_consumption_meter
           /\ new.total_consumption_meter = total_consumption_meter
           /\ \A i \in DOMAIN GatewayProperties(new.cls) :
                 IsEmptyValue(AttributeValue(new, GatewayProperties(new.cls)[i].key))

\* C10 witness: get_subclass returned the new instance while the old one
\* held fetched payloads.
C10_Witness ==
    /\ lastOp.op = "get_subclass"
    /\ ~IsNone(returned)
    /\ Fetched(Self, "production.json")
    /\ Fetched(Self, "ivp/meters")

\* The latest operation was a request function of gateway_reader/http.py.
Requested == lastOp.op \in {"async_get", "async_post"}

\* The first attempt, among the retries + 1 the request may make, that the
\* wire answers with a response; 0 when every one of them meets a
\* transport error.
FirstAnswer(wire, retries) ==
    LET answered == {k \in 1..(retries + 1) : wire[k].kind = "response"}
    IN IF answered = {} THEN 0 ELSE Min(answered)

\* C15: a request with retries = n >= 0 makes at most n + 1 attempts; it
\* raises the transport error when every one of the n + 1 attempts meets
\* one; it raises a 4xx/5xx status error at the attempt that received it,
\* without a further attempt, when raise_for_status is set; otherwise it
\* returns the response; it never returns without a response or an exception.
C15_BoundedRetries ==
    Requested =>
        LET r == Val(returned)
            n == lastOp.retries
            k == FirstAnswer(lastOp.wire, n)
        IN /\ r.attempts <= n + 1
           /\ r.kind # "none"
           /\ k = 0 => r = Outcome("TransportError", 0, n + 1)
           /\ k > 0 =>
                IF lastOp.raise_for_status /\ is_error(lastOp.wire[k].status_code)
                THEN r = Outcome("HTTPStatusError", lastOp.wire[k].status_code, k)
                ELSE r = Outcome("response", lastOp.wire[k].status_code, k)

\* A request with two retries met a transport error on each of its three
\* attempts and raised it.
C15_Witness ==
    /\ Requested
    /\ lastOp.retries = 2
    /\ Val(returned) = Outcome("TransportError", 0, 3)

\* The requests of the latest operation that went to `to`.
CallsTo(calls, to) == {i \in DOMAIN calls : calls[i].to = to}

\* The expiry of the token the instance `self` holds lies within the stale
\* threshold: less than the threshold away, or passed.
WithinStaleThreshold(self) ==
    /\ Decodable(self._token)
    /\ now > Val(self._token).exp - self._stale_token_threshold

C12_CookiesOfCurrentToken ==
    (~IsNone(auth) /\ TruthyCookies(Val(auth)._cookies)) =>
        /\ ~IsNone(Val(auth)._token)
        /\ Val(Val(auth)._cookies) = SessionCookies(Val(Val(auth)._token))

\* An update() replaced the held token and holds the cookies of the new one.
C12_Witness ==
    /\ lastOp.op = "update"
    /\ ~IsNone(auth)
    /\ TruthyToken(lastOp.held)
    /\ lastOp.held # Val(auth)._token
    /\ TruthyCookies(Val(auth)._cookies)

\* C13: resolve_401 re-validates the cookies of the held token at the
\* gateway's auth/check_jwt.
C13_Revalidates ==
    (lastOp.op = "resolve_401" /\ ~IsNone(lastOp.held)) =>
        \E i \in CallsTo(lastOp.calls, "check_jwt") :
            lastOp.calls[i].token = lastOp.held

\* The latest operation constructed, or failed to construct, the instance.
Constructed == lastOp.op = "EnphaseTokenAuth"

\* The arguments of the construction carry the complete Enlighten
\* credentials: a non-empty username, password and serial number.
CompleteCredentials ==
    \A i \in 1..3 : ~IsNone(lastOp.credentials[i]) /\ Val(lastOp.credentials[i]) # ""

\* The arguments of the construction carry a non-empty raw token.
RawTokenGiven == ~IsNone(lastOp.token_raw) /\ Val(lastOp.token_raw).text # ""

\* C17: the construction fails with TokenAuthConfigError exactly when
\* neither the complete credentials nor a raw token are given; it succeeds
\* otherwise, holding the raw token, and in both cases sends no request.
C17_ConstructionChecksConfiguration ==
    Constructed =>
        /\ lastOp.calls = <<>>
        /\ IF ~CompleteCredentials /\ ~RawTokenGiven
           THEN lastOp.raised = "TokenAuthConfigError" /\ IsNone(auth)
           ELSE /\ lastOp.raised = ""
                /\ ~IsNone(auth)
                /\ Val(auth)._token = lastOp.token_raw
                /\ Val(auth)._enlighten_credentials = CompleteCredentials

\* A construction without credentials and without a token failed.
C17_Witness ==
    /\ Constructed
    /\ ~CompleteCredentials
    /\ ~RawTokenGiven
    /\ lastOp.raised = "TokenAuthConfigError"

\* The latest operation read the expiry properties of a decodable token.
ExpiryRead == lastOp.op = "expiry" /\ lastOp.raised = ""

\* The expiry date of the token held now, less the stale threshold.
StaleFrom == Val(Val(auth)._token).exp - Val(auth)._stale_token_threshold

C19_NoRenewalWithoutAutoRenewal ==
    [][(/\ lastOp'.op = "update"
        /\ ~IsNone(auth)
        /\ WithinStaleThreshold(Val(auth))
        /\ ~Val(auth)._auto_renewal)
       => /\ CallsTo(lastOp'.calls, "login") = {}
          /\ CallsTo(lastOp'.calls, "tokens") = {}
          /\ Val(auth')._token = Val(auth)._token]_vars

\* An update() with auto-renewal disabled kept a stale token, while the
\* credentials that could have renewed it were configured.
C19_Witness ==
    /\ lastOp.op = "update"
    /\ ~IsNone(auth)
    /\ ~Val(auth)._auto_renewal
    /\ Val(auth)._enlighten_credentials
    /\ Decodable(lastOp.held)
    /\ now > Val(lastOp.held).exp - Val(auth)._stale_token_threshold
    /\ Val(auth)._token = lastOp.held
    /\ lastOp.raised = ""

\* C20: in every update(), each token request directly follows a login
\* that succeeded and passes the session id of that login's response; when
\* a login fails no token request is sent and the held token is not changed.
C20_LoginBeforeToken ==
    [][(lastOp'.op = "update" /\ ~IsNone(auth)) =>
        LET calls == lastOp'.calls
        IN /\ \A i \in CallsTo(calls, "tokens") :
                /\ i > 1
                /\ calls[i - 1].to = "login"
                /\ calls[i - 1].session_id # ""
                /\ calls[i].session_id = calls[i - 1].session_id
           /\ (\E i \in CallsTo(calls, "login") : calls[i].session_id = "")
                => /\ CallsTo(calls, "tokens") = {}
                   /\ Val(auth')._token = Val(auth)._token]_vars

\* An update() renewed the token through a login and a token request that
\* passed the session id "s2".
C20_Witness ==
    /\ lastOp.op = "update"
    /\ lastOp.raised = ""
    /\ Len(lastOp.calls) >= 2
    /\ lastOp.calls[1].to = "login"
    /\ lastOp.calls[2].to = "tokens"
    /\ lastOp.calls[2].session_id = "s2"

\* The latest operation was the reader's fetch of a url.
UrlFetched == lastOp.op = "_async_get"

\* The gateway answers the request on wire `wire` with a 401.
Answers401(wire) ==
    LET k == FirstAnswer(wire, DefaultRetries)
    IN k > 0 /\ wire[k].status_code = 401

\* The recovery of a 401 fails: refresh_cookies() returns False and
\* refresh() raises.
RecoveryFails == ~lastOp.recovery.refresh_cookies /\ ~lastOp.recovery.refresh

\* C14 as stated: a fetch sends at most two requests and starts the
\* recovery at most once, and a 401 whose recovery does not fail is retried
\* exactly once.
C14_RetriedOnce ==
    UrlFetched =>
        /\ Val(returned).requests <= 2
        /\ Val(returned).hooks <= 1
        /\ (Answers401(lastOp.wires[1]) /\ ~RecoveryFails)
              => Val(returned).requests = 2

\* C14, amended: a fetch sends at most two requests and starts the recovery
\* at most once; with token authentication a 401 starts the recovery once
\* and, unless the recovery fails, the request is retried exactly once and
\* a 401 of the retry propagates; when the recovery fails, and whenever the
\* reader does not use token authentication, the 401 propagates without a
\* retry.
C14_RetriedOnceWithTokenAuth ==
    UrlFetched =>
        LET r == Val(returned)
            first401 == Answers401(lastOp.wires[1])
        IN /\ r.requests <= 2
           /\ r.hooks <= 1
           /\ r.hooks = 1 <=> (first401 /\ lastOp.use_token_auth)
           /\ r.requests = 2 <=> (first401 /\ lastOp.use_token_auth /\ ~RecoveryFails)
           /\ (first401 /\ r.requests = 1) =>
                 (r.outcome.kind = "HTTPStatusError" /\ r.outcome.status_code = 401)
           /\ (r.requests = 2 /\ Answers401(lastOp.wires[2])) =>
                 (r.outcome.kind = "HTTPStatusError" /\ r.outcome.status_code = 401)

\* A fetch with token authentication met a 401, recovered, was retried and
\* met a 401 again, which propagated.
C14_Witness ==
    /\ UrlFetched
    /\ lastOp.use_token_auth
    /\ Answers401(lastOp.wires[1])
    /\ Answers401(lastOp.wires[2])
    /\ Val(returned).requests = 2
    /\ Val(returned).hooks = 1
    /\ Val(returned).outcome.kind = "HTTPStatusError"

\* C16: an update_endpoints() leaves last_fetch and the stored payload of
\* every endpoint whose fetch obtained no response (it was cancelled, ended
\* in a status error, or met a transport error on every attempt) unchanged.
C16_FailedFetchLeavesNoTrace ==
    [][lastOp'.op = "update_endpoints" =>
        \A e \in lastOp'.failed :
            /\ last_fetch'[e] = last_fetch[e]
            /\ data'[EndpointPath(e)] = data[EndpointPath(e)]]_vars

\* ---- C21

\* The requests of `calls` sent to the cloud that ended as `kind` with the
\* status `code`.
CloudCalls(calls, tos, kind, code) ==
    {i \in DOMAIN calls : /\ calls[i].to \in tos
                          /\ calls[i].resp.kind = kind
                          /\ calls[i].resp.status_code = code}

\* C21: when update() has sent the cloud login and the login was answered
\* with 401, update() raises EnlightenAuthenticationError; when a request
\* of update() to the cloud met a transport failure on every attempt,
\* update() raises EnlightenCommunicationError; and update() raises
\* neither of the two errors for the other cause.
C21_CloudErrorsKeptApart ==
    lastOp.op = "update" =>
        LET denied == CloudCalls(lastOp.calls, {"login"}, "HTTPStatusError", 401)
            unreachable == CloudCalls(lastOp.calls, {"login", "tokens"}, "TransportError", 0)
        IN /\ denied # {} => lastOp.raised = "EnlightenAuthenticationError"
           /\ unreachable # {} => lastOp.raised = "EnlightenCommunicationError"
           /\ lastOp.raised = "EnlightenCommunicationError" => unreachable # {}
           /\ lastOp.raised = "EnlightenAuthenticationError" =>
                CloudCalls(lastOp.calls, {"login", "tokens"}, "HTTPStatusError", 401) # {}

\* An update() that renewed a stale token which is not expired and whose
\* login met a transport failure.
C21_Witness ==
    /\ lastOp.op = "update"
    /\ Decodable(lastOp.held)
    /\ now <= Val(lastOp.held).exp
    /\ CloudCalls(lastOp.calls, {"login"}, "TransportError", 0) # {}
    /\ lastOp.raised = "EnlightenCommunicationError"

\* ---- C22

\* C22: when update() has asked the gateway to validate the token
\* (_check_jwt, not fail-silent), it ends without an exception, with
\* InvalidTokenError or with GatewayCommunicationError, and no other
\* exception escapes; a 401 of the gateway gives InvalidTokenError and a
\* transport failure gives GatewayCommunicationError.
C22_ValidationOutcomes ==
    lastOp.op = "update" /\ CallsTo(lastOp.calls, "check_jwt") # {} =>
        LET resp == lastOp.calls[Len(lastOp.calls)].resp
        IN /\ lastOp.raised \in {"", "InvalidTokenError", "GatewayCommunicationError"}
           /\ resp.kind = "HTTPStatusError" /\ resp.status_code = 401
                => lastOp.raised = "InvalidTokenError"
           /\ resp.kind = "TransportError"
                => lastOp.raised = "GatewayCommunicationError"

\* ---- C23

\* The info is populated and its cache time has not passed.
InfoFresh == info.populated /\ Val(info._last_fetch) + InfoCacheTime > now

\* C23: an update() of the gateway info that starts while the info is
\* populated and its cache time has not passed sends no request and leaves
\* the info as it is; an update() that starts otherwise requests the info
\* endpoint, and when it ends without an exception the info is populated
\* and its cache time starts at the current time.
C23_InfoFetchedWhenRequired ==
    [][lastOp'.op = "info_update" =>
        /\ InfoFresh => IsNone(lastOp'.fetch) /\ info' = info
        /\ ~InfoFresh =>
            /\ ~IsNone(lastOp'.fetch)
            /\ Val(lastOp'.fetch).requests # <<>>
            /\ lastOp'.raised = "" =>
                    info'.populated /\ info'._last_fetch = Some(now)]_vars

\* An update() that sent no request although time has passed since the
\* fetch.
C23_Witness ==
    /\ lastOp.op = "info_update"
    /\ info.populated
    /\ IsNone(lastOp.fetch)
    /\ Val(info._last_fetch) < now

\* ---- C24

\* C24: every fetch of the gateway info sends the https request first; it
\* sends the http request after it exactly when the https request ended in
\* a ConnectError or a TimeoutException; and this is so also in the call
\* that follows a call that fell back to http.
C24_HttpsFirst ==
    lastOp.op = "info_update" /\ ~IsNone(lastOp.fetch) =>
        LET fetch == Val(lastOp.fetch)
        IN /\ Head(fetch.requests) = "https"
           /\ fetch.requests \in {<<"https">>, <<"https", "http">>}
           /\ fetch.requests = <<"https", "http">>
                <=> fetch.https_error \in {"ConnectError", "TimeoutException"}

\* A fetch that follows a fetch that fell back, and that does not fall back.
C24_Witness ==
    /\ lastOp.op = "info_update"
    /\ lastOp.after_fallback
    /\ ~IsNone(lastOp.fetch)
    /\ Val(lastOp.fetch).requests = <<"https">>

\* ---- C25

\* C25: an update() of the gateway info whose request failed in transport
\* raises GatewayCommunicationError; an update() that was answered with a
\* body that is no XML or has no <device> element raises
\* EnvoyFirmwareFatalCheckError; and in both cases `populated` stays as it
\* was.
C25_InfoFailuresReported ==
    [][lastOp'.op = "info_update" /\ ~IsNone(lastOp'.fetch) =>
        LET outcome == Val(lastOp'.fetch).outcome
        IN /\ outcome.kind = "TransportError" =>
                /\ lastOp'.raised = "GatewayCommunicationError"
                /\ info'.populated = info.populated
           /\ (/\ outcome.kind = "response"
               /\ \/ ~Val(lastOp'.payload).parseable
                  \/ IsNone(Val(lastOp'.payload).device)) =>
                /\ lastOp'.raised = "EnvoyFirmwareFatalCheckError"
                /\ info'.populated = info.populated]_vars

\* ---- C26

\* The <software> version and the <imeter> text of the document prepare()
\* was answered with.
PreparedFrom(version_below, imeter) ==
    /\ lastOp.op = "prepare"
    /\ lastOp.raised = ""
    /\ ~IsNone(lastOp.payload)
    /\ ~IsNone(Val(lastOp.payload).device)
    /\ ~IsNone(Val(Val(lastOp.payload).device).software)
    /\ VersionLess(Tail(Val(Val(Val(lastOp.payload).device).software)), <<3, 9, 0>>)
            = version_below
    /\ Val(Val(lastOp.payload).device).imeter = imeter

\* C26: a prepare() that was answered with a firmware version below 3.9.0
\* picks EnvoyLegacy, whether the document says imeter true, imeter false
\* or has no <imeter> element.
C26_LegacyBelowThreshold ==
    \A imeter \in {None, Some("true"), Some("false")} :
        PreparedFrom(TRUE, imeter) => gateway = "EnvoyLegacy"

\* A prepare() that picked EnvoyLegacy for version 3.8.10 with imeter true.
C26_Witness ==
    /\ PreparedFrom(TRUE, Some("true"))
    /\ Val(info.firmware_version) = <<3, 8, 10>>
    /\ gateway = "EnvoyLegacy"

\* ---- C27

\* C27: a prepare() that was answered with a firmware version of 3.9.0 or
\* above picks EnvoySMetered when the document says imeter true, EnvoyS
\* when it says imeter false, and Envoy when it has no <imeter> element:
\* the value the gateway info holds after its update() tells the three
\* documents apart.
C27_VariantByImeter ==
    /\ PreparedFrom(FALSE, Some("true")) => gateway = "EnvoySMetered"
    /\ PreparedFrom(FALSE, Some("false")) => gateway = "EnvoyS"
    /\ PreparedFrom(FALSE, None) => gateway = "Envoy"

\* ---- C28

\* The factor the unit normalisation gives a unit.
UnitFactor(unit) ==
    IF unit \in {"kW", "kWh"} THEN 1000
    ELSE IF unit \in {"MW", "MWh"} THEN 1000000
    ELSE 1

\* C28: the pattern extractor returns None when the pattern matches no row
\* of the page, and else the matched number times 1000 for the units kW
\* and kWh, times 1000000 for MW and MWh and times 1 for every other unit.
C28_UnitsNormalised ==
    lastOp.op = "regex_resolve" =>
        LET match == re_search(lastOp.regex, lastOp.data)
        IN IF IsNone(match) THEN returned = Some(PyNone)
           ELSE returned = Some(PyNum(Val(match)[1] * UnitFactor(Val(match)[2])))

\* ---- C29

\* C29: the path extractor returns the whole payload for the empty
\* expression; else the caller's default when the expression matches
\* nothing, the matched element itself when it matches one element, and
\* the list of the matched elements when it matches several.
C29_PathExtractor ==
    lastOp.op = "json_resolve" =>
        LET matches == jsonpath(lastOp.data, lastOp.path)
        IN CASE lastOp.path.kind = "empty" -> returned = Some(lastOp.data)
             [] lastOp.path.kind # "empty" /\ Len(matches) = 0 ->
                    returned = Some(lastOp.default)
             [] lastOp.path.kind # "empty" /\ Len(matches) = 1 ->
                    returned = Some(matches[1])
             [] OTHER -> returned = Some(PyList(matches))

\* An expression that matched the one element of a list and returned the
\* number, not a list.
C29_Witness ==
    /\ lastOp.op = "json_resolve"
    /\ lastOp.path = [kind |-> "each", key |-> "a"]
    /\ "a" \in DOMAIN lastOp.data.v
    /\ lastOp.data.v["a"].t = "list"
    /\ Len(lastOp.data.v["a"].v) = 1
    /\ returned = Some(PyNum(1))

\* ---- C30

\* The storage paths an attribute reads.
StoragePathOf(name) ==
    CASE name \in {"encharge_inventory"} -> {"ivp/ensemble/inventory"}
      [] name \in {"encharge_power", "ensemble_power"} -> {"ivp/ensemble/power"}
      [] name = "ensemble_secctrl" -> {"ivp/ensemble/secctrl"}
      [] name = "acb_storage" -> {"production.json"}
      [] OTHER -> {"ivp/ensemble/inventory", "production.json"}

\* C30: on EnvoyS, EnvoySMetered and EnvoySMeteredCtDisabled, reading a
\* storage attribute yields storage data or None / an empty value and
\* raises nothing, whatever the data store holds; obtaining it never ends
\* in an exception.
C30_StorageNeverRaises ==
    /\ gateway \in {"EnvoyS", "EnvoySMetered", "EnvoySMeteredCtDisabled"}
    /\ lastOp.op \in {"getattr", "call"}
    /\ lastOp.name \in StorageAttributes
    => /\ lastOp.raised = ""
       /\ ~IsNone(returned)
       /\ Val(returned).t \in {"none", "num", "list", "dict"}

\* The same for the five attributes that are registered.
C30_RegisteredStorageNeverRaises ==
    /\ lastOp.op = "getattr"
    /\ lastOp.name \in StorageAttributes \ {"battery_storage"}
    => /\ lastOp.raised = ""
       /\ ~IsNone(returned)
       /\ Val(returned).t \in {"none", "num", "list", "dict"}
       /\ (\A p \in StoragePathOf(lastOp.name) : IsNone(data[p]))
              => IsEmptyValue(Val(returned))

\* ---- C31

\* The paths the registered attributes of the gateway in use are bound to.
ExposedPaths == {EndpointPath(GatewayProperties(gateway)[i].val) :
                    i \in DOMAIN GatewayProperties(gateway)}

\* The paths of the probes of the gateway in use.
ProbePaths == {EndpointPath(GatewayProbes(gateway)[i].val) :
                  i \in DOMAIN GatewayProbes(gateway)}

\* C31: no probe is among the properties or in all_values of the gateway,
\* and once initial_update_finished is set the required endpoints hold the
\* path of a probe only if a registered attribute is bound to that path.
C31_ProbesNotExposed ==
    /\ properties(Self) \cap Keys(GatewayProbes(gateway)) = {}
    /\ lastOp.op = "all_values" =>
          DOMAIN Val(returned) \cap Keys(GatewayProbes(gateway)) = {}
    /\ lastOp.op = "required_endpoints" /\ initial_update_finished =>
          Keys(Val(returned)) \cap ProbePaths \subseteq ExposedPaths

\* The required endpoints of an EnvoySMetered whose probe has run, read
\* after the initial update and without the path of the probe; the same
\* gateway required that path before.
C31_Witness ==
    /\ gateway = "EnvoySMetered"
    /\ _probes_finished
    /\ initial_update_finished
    /\ lastOp.op = "required_endpoints"
    /\ Len(Val(returned)) > 0
    /\ ProbePaths = {"ivp/meters"}
    /\ "ivp/meters" \notin Keys(Val(returned))
    /\ ~IsNone(data["ivp/meters"])

\* ---- C33

\* The positions of a step in the steps of an update().
StepsAt(steps, step) == {i \in DOMAIN steps : steps[i].step = step}

\* Path p was fetched before position i.
FetchedBefore(steps, p, i) ==
    \E j \in 1..(i - 1) : steps[j] = Step("fetch", p)

\* C33: in one update() no endpoint is fetched before the auth's update();
\* in the first update the probes run, and only after every path of a
\* registered attribute or probe has been fetched; initial_update_finished
\* is set as the last step, after the probes and the substitution, and
\* once set it stays set.
C33_UpdateOrder ==
    [][/\ initial_update_finished => initial_update_finished'
       /\ lastOp'.op = "update" =>
            LET steps == lastOp'.steps
            IN /\ \A i \in StepsAt(steps, "fetch") :
                     \E j \in StepsAt(steps, "auth.update") : j < i
               /\ \A i \in StepsAt(steps, "run_probes") :
                     \A p \in ExposedPaths \cup ProbePaths : FetchedBefore(steps, p, i)
               /\ lastOp'.first <=> StepsAt(steps, "run_probes") # {}
               /\ \A i \in StepsAt(steps, "substitute") :
                     \E j \in StepsAt(steps, "run_probes") : j < i
               /\ StepsAt(steps, "finish") = {Len(steps)}
               /\ initial_update_finished']_vars

\* A first update() that ran the probe, substituted the gateway, fetched
\* again and then set initial_update_finished.
C33_Witness ==
    /\ lastOp.op = "update"
    /\ lastOp.first
    /\ StepsAt(lastOp.steps, "substitute") # {}
    /\ \E i \in StepsAt(lastOp.steps, "fetch") :
          \E j \in StepsAt(lastOp.steps, "substitute") : j < i
    /\ gateway = "EnvoySMeteredCtDisabled"
    /\ initial_update_finished

\* ---- C34

\* The reading of the meter with the eid `meter` in the data store, None
\* when the meter is not enabled or has no reading.
ReadingOf(meter) ==
    IF PyTruthy(meter) /\ Len(ReadingsOf(Self, meter)) = 1
    THEN Some(ReadingsOf(Self, meter)[1])
    ELSE None

\* C34: on EnvoySMetered with an enabled production meter and an enabled
\* net-consumption meter whose readings are present, consumption is the
\* production plus the activePower of the net-consumption meter, and
\* lifetime_consumption is the lifetime production minus (actEnergyRcvd -
\* actEnergyDlvd) of the net-consumption meter, a production of 0 included;
\* without an enabled net-consumption meter both are None.
C34_ConsumptionFromNetMeter ==
    /\ gateway = "EnvoySMetered"
    /\ lastOp.op = "getattr"
    /\ lastOp.name \in {"consumption", "lifetime_consumption"}
    => LET prod == ReadingOf(production_meter)
           net == ReadingOf(net_consumption_meter)
       IN /\ ~PyTruthy(net_consumption_meter) => returned = Some(PyNone)
          /\ ~IsNone(prod) /\ ~IsNone(net) =>
                IF lastOp.name = "consumption"
                THEN returned = Some(PyNum(Val(prod).activePower + Val(net).activePower))
                ELSE returned = Some(PyNum(Val(prod).actEnergyDlvd
                                           - (Val(net).actEnergyRcvd
                                              - Val(net).actEnergyDlvd)))

\* ---- C39

\* The attribute names a class body declares.
Declares(c) == Range(ClassMethods(c)) \cup Range(ClassDescriptors(c))

\* The class of Mro(cls) that is the most derived one declaring attr.
MostDerived(cls, attr) ==
    Mro(cls)[Min({i \in DOMAIN Mro(cls) : attr \in Declares(Mro(cls)[i])})]

\* The registry the class declarations give an instance of cls: every
\* attribute with the endpoint of the most derived class that declares it.
DeclaredRegistry(cls) ==
    {[key |-> attr, val |-> EndpointOf(MostDerived(cls, attr), attr)] :
        attr \in UNION {Declares(c) : c \in Range(Mro(cls))}}

\* C39: every instance of a gateway class, the first and the later ones,
\* gets the registry the class declarations give: each attribute with the
\* endpoint of the most derived class that declares it.
C39_SameRegistryForEveryInstance ==
    lastOp.op = "new" =>
        Range(Val(other).properties) = DeclaredRegistry(lastOp.cls)

\* ---- C32

\* The endpoint objects of an instance: those of its registry and of its
\* probes.
EndpointsOf(o) ==
    {o.properties[i].val : i \in DOMAIN o.properties}
    \cup {o.probes[i].val : i \in DOMAIN o.probes}

\* The paths instance o requires, with the endpoint objects' caches being
\* `caches`.
RequiredPathsOf(o, caches) ==
    LET props == CollectProperties([endpoints |-> <<>>, cache |-> caches],
                                   o.g, o.properties, 1)
    IN IF o.g.initial_update_finished THEN Keys(props.endpoints)
       ELSE Keys(CollectProbes(props, o.probes, 1).endpoints)

\* What instance o sees of its endpoints and its registry when the
\* endpoint objects hold `fetches` and `caches`.
ViewOf(o, fetches, caches) ==
    [update_required |-> [e \in EndpointsOf(o) |-> update_required_within(fetches, caches, e)],
     cache |-> [e \in EndpointsOf(o) |-> caches[e]],
     required |-> RequiredPathsOf(o, caches),
     properties |-> o.properties]

\* C32: marking an endpoint fetched, merging the caches in
\* required_endpoints or storing a response on the gateway in use changes
\* neither update_required nor the cache of the endpoints of the other
\* instance, nor its required paths, nor its registry.
C32_InstancesIndependent ==
    [][/\ ~IsNone(other)
       /\ lastOp'.op \in {"success", "required_endpoints", "set_endpoint_data"}
       => ViewOf(Val(other'), last_fetch', cache') = ViewOf(Val(other), last_fetch, cache)]_vars

CheckJwtResponses(calls) ==
    {calls[i].resp : i \in {j \in DOMAIN calls : calls[j].to = "check_jwt"}}

\* C36: when update() returns without an exception, a token is held and the
\* cookies held are non-empty and are the ones the gateway set when it
\* validated that token; when the gateway answered auth/check_jwt with an
\* HTTP error other than 401, update() ends with an exception.
C36_UpdateReturnsValid ==
    lastOp.op = "update" =>
        /\ lastOp.raised = "" =>
            /\ TruthyToken(Val(auth)._token)
            /\ TruthyCookies(Val(auth)._cookies)
            /\ Val(auth)._cookies = Some(SessionCookies(Val(Val(auth)._token)))
        /\ (\E resp \in CheckJwtResponses(lastOp.calls) :
                resp.kind = "HTTPStatusError" /\ resp.status_code # 401)
            => lastOp.raised # ""

\* ---- C37

\* The call was an update() of an instance holding a token whose renewal met
\* a transport failure of the cloud.
RenewalMetTransportFailure ==
    /\ lastOp.op = "update"
    /\ TruthyToken(lastOp.held)
    /\ \E i \in DOMAIN lastOp.calls :
          /\ lastOp.calls[i].to \in {"login", "tokens"}
          /\ lastOp.calls[i].resp.kind = "TransportError"

\* The exceptions that report the transport failure of the cloud.
CloudTransportFailures == {"TransportError", "EnlightenCommunicationError"}

\* C37: when the renewal of a stale token meets a transport failure of the
\* cloud, update() keeps the token it held; it does not end with that
\* failure when the token is not expired yet, and it ends with that failure
\* when the token is expired.
C37_RenewalFailureTolerated ==
    RenewalMetTransportFailure =>
        /\ Val(auth)._token = lastOp.held
        /\ lastOp.raised \in CloudTransportFailures
             <=> is_expired([_token |-> lastOp.held])

\* ---- C38

\* update() ran _setup_token with token caching enabled: no token was held.
SetupWithCache ==
    lastOp.op = "update" /\ ~TruthyToken(lastOp.held) /\ Val(auth)._cache_token

\* The cached token was adopted: the first request is the gateway's
\* validation of a token read from the cache, and it was answered.
CachedTokenAdopted ==
    /\ lastOp.calls # <<>>
    /\ lastOp.calls[1].to = "check_jwt"
    /\ lastOp.calls[1].resp.kind = "response"
    /\ TruthyToken(lastOp.calls[1].token)

\* A token was asked from the cloud.
CloudAsked == \E i \in DOMAIN lastOp.calls : lastOp.calls[i].to = "login"

\* C38: with token caching enabled and no token held, the setup adopts the
\* cached token after the gateway validated it, and otherwise (cache empty,
\* unreadable or not validated) raises no error for that and asks the cloud
\* for a token; when update() returns, a token is held.
C38_CachedTokenSetup ==
    SetupWithCache =>
        /\ CachedTokenAdopted \/ CloudAsked
        /\ lastOp.raised = "" => TruthyToken(Val(auth)._token)

====
